---------------------------- MODULE Spec2Model ----------------------------
(***************************************************************************)
(* A model of src/hash.c of UnrealIRCd: the connection-throttling store    *)
(* (ThrottlingHash), the WATCH registry (watchTable and the per-client     *)
(* watch lists) and the tables of clients, ids and channels (clientTable,  *)
(* idTable, channelTable) with their lookups.                              *)
(*                                                                         *)
(* The subsystems share no state, so each has its own specification:       *)
(*   SpecThrottle       throttle_can_connect, add_throttling_bucket,       *)
(*                      e_clean_out_throttling_buckets, time and           *)
(*                      configuration                                      *)
(*   SpecWatch          add_to_watch_hash_table, del_from_watch_hash_table,*)
(*                      hash_del_watch_list, hash_check_watch              *)
(*   SpecTables         add_to_ / del_from_ client, id and channel hash    *)
(*                      table, name changes, and one client that watches   *)
(*   SpecWatchFault     the watch registry when a link under a header is   *)
(*                      lost                                               *)
(*   SpecSweepInterval  init_throttling                                    *)
(*   SpecTwins          clientTable and channelTable with two entries of   *)
(*                      one name                                           *)
(*   SpecChanBucket     hash_get_chan_bucket over channelTable             *)
(***************************************************************************)
EXTENDS Integers, Sequences, FiniteSets, TLC

(***************************************************************************)
(* Bounds of the model.                                                    *)
(***************************************************************************)
\* TStime() is observed at 0..MaxTime and, for the window of a zero period,
\* at DefaultWindow and DefaultWindow + 1.
MaxTime == 1
\* set::anti-flood::connect-flood count:period, each drawn from 0..Max.
MaxThreshold == 2
MaxPeriod == 1

\* Size of ThrottlingHash (scaled down; the chains, not the size, matter).
THROTTLING_HASH_TABLE_SIZE == 2

\* The window the sweep uses when THROTTLING_PERIOD is zero.
DefaultWindow == 15

IPs == {"10.0.0.1", "10.0.0.2"}
NoIP == "none"

Times == (0..MaxTime) \cup {DefaultWindow, DefaultWindow + 1}
Periods == 0..MaxPeriod
Counts == 0..MaxThreshold

\* Size of watchTable (scaled down likewise).
WATCH_HASH_TABLE_SIZE == 2

\* Nicknames, as the bytes of their text: "Bob", "bob" and "al".
Bob == <<66, 111, 98>>
bob == <<98, 111, 98>>
al == <<97, 108>>
Nicks == {Bob, bob, al}

\* The local clients that use WATCH.
Clients == {"A", "B"}

\* The Watch headers the allocator can hand out (addresses), and NULL.
MaxWatchHeaders == 3
WatchPtrs == 1..MaxWatchHeaders
NULL == 0
\* A header that is not allocated.
FreeCell == [nick |-> << >>, lasttime |-> -1, watch |-> << >>]

\* The replies hash_check_watch is called with.
AwayReplies == {"RPL_GONEAWAY", "RPL_NOTAWAY", "RPL_REAWAY"}
Replies == {"RPL_LOGON"} \cup AwayReplies

\* Size of clientTable and idTable, and of channelTable (scaled down likewise).
NICK_HASH_TABLE_SIZE == 2
CHAN_HASH_TABLE_SIZE == 2

\* Further texts: the ids "001", "002", "003", the server names "sa", "SA"
\* and "sb", the channel names "#a", "#A", "#b" and "#c", and the byte '@'.
t001 == <<48, 48, 49>>
t002 == <<48, 48, 50>>
t003 == <<48, 48, 51>>
sa == <<115, 97>>
SA == <<83, 65>>
sb == <<115, 98>>
chan_a == <<35, 97>>
chan_A == <<35, 65>>
chan_b == <<35, 98>>
chan_c == <<35, 99>>
At == 64

\* The Client structures of the name and id tables, and the texts a client
\* can be named.
Entities == {"c1", "c2", "c3"}
NameTexts == {Bob, bob, al, t001}
\* The Channel structures.
Channels == {"ch1", "ch2", "ch3"}
\* A client's name changes at most MaxRenames times in a run.
MaxRenames == 1

VARIABLES
    \* ---- throttling store ----
    ThrottlingHash,         \* [0..SIZE-1 -> Seq([ip, since, count])], head first
    siphashkey_throttling,  \* what the random key fixes: text -> hash value
    THROTTLING_PERIOD,      \* configured window
    THROTTLING_COUNT,       \* configured threshold
    now,                    \* TStime()
    ret,                    \* return value of the last throttle_can_connect (-1: none yet)
    sptr,                   \* address of the last throttle_can_connect
    cond,                   \* what that call met: "disabled", "nobucket", "excepted", "counted"
    pc,                     \* the caller (add_connection): "idle", or "add" after a return of 1
    run,                    \* history: attempts of an address since its bucket-less one
    \* ---- watch registry ----
    watchTable,             \* [0..SIZE-1 -> Seq(WatchPtrs)]: the hnext chain of each slot
    watchHeap,              \* [WatchPtrs -> [nick, lasttime, watch: Seq([cptr, flags])]]
    siphashkey_watch,       \* what the random key fixes: folded text -> hash value
    local_watch,            \* cptr->local->watch: [Clients -> Seq([wptr, flags])]
    local_watches,          \* cptr->local->watches
    sent,                   \* what the last operation sent: Seq([to, reply])
    wcond,                  \* what the last operation met
    \* ---- client, id and channel tables ----
    clientTable,            \* [0..SIZE-1 -> Seq(Entities)]: the list of each slot, head first
    idTable,                \* likewise, linked through id_hash
    channelTable,           \* [0..SIZE-1 -> Seq(Channels)]: the hnextch chain of each slot
    siphashkey_nick,        \* what the random key fixes: folded text -> hash value
    siphashkey_chan,        \* likewise for channel names
    loop_tainted,           \* loop.tainted
    client_name,            \* cptr->name of each client
    renames,                \* how often a name has changed
    exist,                  \* the structures of the run: [clients, ids, channels, watchers]
    hcond,                  \* what the last table operation met
    \* ---- the sweep event ----
    bucketcleaning,         \* every_msec of the "bucketcleaning" event (-1: not added)
    chan_bucket             \* the last call of hash_get_chan_bucket (NoCall: none)

tvars == <<ThrottlingHash, siphashkey_throttling, THROTTLING_PERIOD,
           THROTTLING_COUNT, now, ret, sptr, cond, pc, run>>

wvars == <<watchTable, watchHeap, siphashkey_watch, local_watch, local_watches,
           sent, wcond>>

hvars == <<clientTable, idTable, channelTable, siphashkey_nick, siphashkey_chan,
           loop_tainted, client_name, renames, exist, hcond>>

\* What the throttling store and the watch registry leave alone.
ovars == <<hvars, bucketcleaning, chan_bucket>>

vars == <<tvars, wvars, ovars>>

(***************************************************************************)
(* Helpers                                                                 *)
(***************************************************************************)
MinOf(S) == CHOOSE x \in S : \A y \in S : x <= y

Buckets == 0..(THROTTLING_HASH_TABLE_SIZE - 1)

\* AddListItem(item, list): the item becomes the head of the chain.
AddListItem(n, list) == <<n>> \o list

\* DelListItem(item, list): unlink the item at position i of the chain.
DelListItem(i, list) == [j \in 1..(Len(list) - 1) |-> IF j < i THEN list[j] ELSE list[j + 1]]

(***************************************************************************)
(* Throttling store                                                        *)
(***************************************************************************)
\* siphash(ip, siphashkey_throttling) % THROTTLING_HASH_TABLE_SIZE
hash_throttling(ip) == siphashkey_throttling[ip] % THROTTLING_HASH_TABLE_SIZE

NoBucket == 0

\* The position in its chain of the first bucket whose ip equals ip, or NoBucket.
find_throttling_bucket(ip) ==
    LET chain == ThrottlingHash[hash_throttling(ip)]
        hits  == {i \in 1..Len(chain) : chain[i].ip = ip}
    IN  IF hits = {} THEN NoBucket ELSE MinOf(hits)

\* The bucket find_throttling_bucket returns (only used when one exists).
BucketOf(ip) == ThrottlingHash[hash_throttling(ip)][find_throttling_bucket(ip)]

HasBucket(ip) == find_throttling_bucket(ip) # NoBucket

\* --- variants of throttle_can_connect with a slip in them ---
\* the threshold test off by one (>= for >)
throttle_can_connect_offbyone(ip, exc) ==
    LET h == hash_throttling(ip)
        b == find_throttling_bucket(ip)
    IN  IF THROTTLING_PERIOD = 0 \/ THROTTLING_COUNT = 0
        THEN [ret |-> 2, hash |-> ThrottlingHash]
        ELSE IF b = NoBucket
        THEN [ret |-> 1, hash |-> ThrottlingHash]
        ELSE IF exc
        THEN [ret |-> 2, hash |-> ThrottlingHash]
        ELSE IF ThrottlingHash[h][b].count + 1 >= THROTTLING_COUNT
        THEN [ret |-> 0, hash |-> ThrottlingHash]
        ELSE [ret |-> 2,
              hash |-> [ThrottlingHash EXCEPT ![h][b].count = @ + 1]]

\* the count incremented before the threshold test, so also on a denial
throttle_can_connect_countfirst(ip, exc) ==
    LET h == hash_throttling(ip)
        b == find_throttling_bucket(ip)
    IN  IF THROTTLING_PERIOD = 0 \/ THROTTLING_COUNT = 0
        THEN [ret |-> 2, hash |-> ThrottlingHash]
        ELSE IF b = NoBucket
        THEN [ret |-> 1, hash |-> ThrottlingHash]
        ELSE IF exc
        THEN [ret |-> 2, hash |-> ThrottlingHash]
        ELSE [ret |-> IF ThrottlingHash[h][b].count + 1 > THROTTLING_COUNT
                      THEN 0 ELSE 2,
              hash |-> [ThrottlingHash EXCEPT ![h][b].count = @ + 1]]

\* the exception consulted only after the threshold test
throttle_can_connect_exclate(ip, exc) ==
    LET h == hash_throttling(ip)
        b == find_throttling_bucket(ip)
    IN  IF THROTTLING_PERIOD = 0 \/ THROTTLING_COUNT = 0
        THEN [ret |-> 2, hash |-> ThrottlingHash]
        ELSE IF b = NoBucket
        THEN [ret |-> 1, hash |-> ThrottlingHash]
        ELSE IF ThrottlingHash[h][b].count + 1 > THROTTLING_COUNT
        THEN [ret |-> 0, hash |-> ThrottlingHash]
        ELSE IF exc
        THEN [ret |-> 2, hash |-> ThrottlingHash]
        ELSE [ret |-> 2,
              hash |-> [ThrottlingHash EXCEPT ![h][b].count = @ + 1]]

\* the exception honoured, but the attempt counted all the same
throttle_can_connect_exccount(ip, exc) ==
    LET h == hash_throttling(ip)
        b == find_throttling_bucket(ip)
    IN  IF THROTTLING_PERIOD = 0 \/ THROTTLING_COUNT = 0
        THEN [ret |-> 2, hash |-> ThrottlingHash]
        ELSE IF b = NoBucket
        THEN [ret |-> 1, hash |-> ThrottlingHash]
        ELSE IF exc
        THEN [ret |-> 2,
              hash |-> [ThrottlingHash EXCEPT ![h][b].count = @ + 1]]
        ELSE IF ThrottlingHash[h][b].count + 1 > THROTTLING_COUNT
        THEN [ret |-> 0, hash |-> ThrottlingHash]
        ELSE [ret |-> 2,
              hash |-> [ThrottlingHash EXCEPT ![h][b].count = @ + 1]]

\* the window restarted by every counted attempt (a sliding window)
throttle_can_connect_sliding(ip, exc) ==
    LET h == hash_throttling(ip)
        b == find_throttling_bucket(ip)
    IN  IF THROTTLING_PERIOD = 0 \/ THROTTLING_COUNT = 0
        THEN [ret |-> 2, hash |-> ThrottlingHash]
        ELSE IF b = NoBucket
        THEN [ret |-> 1, hash |-> ThrottlingHash]
        ELSE IF exc
        THEN [ret |-> 2, hash |-> ThrottlingHash]
        ELSE IF ThrottlingHash[h][b].count + 1 > THROTTLING_COUNT
        THEN [ret |-> 0,
              hash |-> [ThrottlingHash EXCEPT ![h][b].since = now]]
        ELSE [ret |-> 2,
              hash |-> [ThrottlingHash EXCEPT ![h][b].count = @ + 1,
                                              ![h][b].since = now]]

\* the bucket looked up before the configuration is tested
throttle_can_connect_nodisable(ip, exc) ==
    LET h == hash_throttling(ip)
        b == find_throttling_bucket(ip)
    IN  IF b = NoBucket
        THEN [ret |-> IF THROTTLING_PERIOD = 0 \/ THROTTLING_COUNT = 0
                      THEN 2 ELSE 1,
              hash |-> ThrottlingHash]
        ELSE IF exc
        THEN [ret |-> 2, hash |-> ThrottlingHash]
        ELSE IF ThrottlingHash[h][b].count + 1 >
                    (IF THROTTLING_COUNT # 0 THEN THROTTLING_COUNT ELSE 3)
        THEN [ret |-> 0, hash |-> ThrottlingHash]
        ELSE [ret |-> 2,
              hash |-> [ThrottlingHash EXCEPT ![h][b].count = @ + 1]]

\* throttle_can_connect(sptr): the return value and the table it leaves.
\* exc is what find_tkl_exception(TKL_CONNECT_FLOOD, sptr) answers.
throttle_can_connect(ip, exc) ==
    LET h == hash_throttling(ip)
        b == find_throttling_bucket(ip)
    IN  IF THROTTLING_PERIOD = 0 \/ THROTTLING_COUNT = 0
        THEN [ret |-> 2, hash |-> ThrottlingHash]
        ELSE IF b = NoBucket
        THEN [ret |-> 1, hash |-> ThrottlingHash]
        ELSE IF exc
        THEN [ret |-> 2, hash |-> ThrottlingHash]
        ELSE IF ThrottlingHash[h][b].count + 1 >
                    (IF THROTTLING_COUNT # 0 THEN THROTTLING_COUNT ELSE 3)
        THEN [ret |-> 0, hash |-> ThrottlingHash]
        ELSE [ret |-> 2,
              hash |-> [ThrottlingHash EXCEPT ![h][b].count = @ + 1]]

\* --- a variant of add_throttling_bucket with a slip in it: the bucket put
\* into the first chain, whatever its address ---
add_throttling_bucket_firstchain(ip) ==
    LET n == [ip |-> ip, since |-> now, count |-> 1]
    IN  [ThrottlingHash EXCEPT ![0] = AddListItem(n, @)]

\* add_throttling_bucket(acptr): a new bucket, count 1, since TStime(), at the
\* head of the chain of its address.
add_throttling_bucket(ip) ==
    LET n == [ip |-> ip, since |-> now, count |-> 1]
        h == hash_throttling(ip)
    IN  [ThrottlingHash EXCEPT ![h] = AddListItem(n, @)]

\* The window of the sweep.
Window == IF THROTTLING_PERIOD # 0 THEN THROTTLING_PERIOD ELSE DefaultWindow

\* --- a variant of the sweep's test: >= for > ---
Expired_atwindow(n) == (now - n.since) >= Window

\* The test of the sweep on one bucket.
Expired(n) == (now - n.since) > Window

\* One chain after the sweep's inner loop: every expired bucket unlinked.
RECURSIVE CleanChain(_, _)
CleanChain(chain, i) ==
    IF i > Len(chain) THEN chain
    ELSE IF Expired(chain[i])
         THEN CleanChain(DelListItem(i, chain), i)
         ELSE CleanChain(chain, i + 1)

\* e_clean_out_throttling_buckets: the table after the scan of every chain.
e_clean_out_throttling_buckets ==
    [i \in Buckets |-> CleanChain(ThrottlingHash[i], 1)]

(***************************************************************************)
(* Actions of the throttling store                                         *)
(***************************************************************************)
RunCap == MaxThreshold + 1

\* siphash_generate_key: the key fixes a hash value for every text.  The
\* chains are interchangeable, so only the keys that send the first address
\* to chain 0 are drawn: the other address shares its chain or has its own.
ThrottlingKeys == {f \in [IPs -> Buckets] : f["10.0.0.1"] = 0}

\* init_hash: memset(watchTable, 0, ...), and no client watches anything.
WatchSlots == 0..(WATCH_HASH_TABLE_SIZE - 1)

WatchEmpty ==
    /\ watchTable = [i \in WatchSlots |-> << >>]
    /\ watchHeap = [p \in WatchPtrs |-> FreeCell]
    /\ local_watch = [c \in Clients |-> << >>]
    /\ local_watches = [c \in Clients |-> 0]
    /\ sent = << >>
    /\ wcond = "none"

NickSlots == 0..(NICK_HASH_TABLE_SIZE - 1)
ChanSlots == 0..(CHAN_HASH_TABLE_SIZE - 1)

\* The ids of the clients (cptr->id, set once).
ClientId == [c \in Entities |->
                IF c = "c1" THEN t001 ELSE IF c = "c2" THEN t002 ELSE t003]

\* The name each client starts with.
FirstName == [c \in Entities |->
                IF c = "c1" THEN Bob ELSE IF c = "c2" THEN al ELSE t001]

\* chptr->chname.
chname == [ch \in Channels \cup {"ch4"} |->
                IF ch = "ch1" THEN chan_a
                ELSE IF ch = "ch2" THEN chan_b
                ELSE IF ch = "ch3" THEN chan_c ELSE chan_A]

\* init_hash: INIT_LIST_HEAD on every slot of clientTable and idTable,
\* memset(channelTable, 0, ...).
TablesEmpty ==
    /\ clientTable = [i \in NickSlots |-> << >>]
    /\ idTable = [i \in NickSlots |-> << >>]
    /\ channelTable = [i \in ChanSlots |-> << >>]
    /\ client_name = FirstName
    /\ renames = 0
    /\ hcond = "none"

\* hash_get_chan_bucket was not called.
NoCall == << >>

\* The tables with nothing to put into them, and no sweep event added.
TablesIdle ==
    /\ TablesEmpty
    /\ siphashkey_nick = [n \in {bob, al, t001, t002, t003} |-> 0]
    /\ siphashkey_chan = [n \in {chan_a, chan_b, chan_c} |-> 0]
    /\ loop_tainted = 0
    /\ exist = [clients |-> {}, ids |-> {}, channels |-> {}, watchers |-> {}]
    /\ bucketcleaning = -1
    /\ chan_bucket = NoCall

TInit ==
    /\ WatchEmpty
    /\ TablesIdle
    /\ siphashkey_watch = [n \in {bob, al} |-> 0]
    /\ ThrottlingHash = [i \in Buckets |-> << >>]
    /\ siphashkey_throttling \in ThrottlingKeys
    /\ THROTTLING_PERIOD \in Periods
    /\ THROTTLING_COUNT \in Counts
    /\ now = 0
    /\ ret = -1
    /\ sptr = NoIP
    /\ cond = "none"
    /\ pc = "idle"
    /\ run = [ip \in IPs |-> 0]

\* Time passes, by any amount.
Tick(t) ==
    /\ pc = "idle"
    /\ UNCHANGED <<wvars, ovars>>
    /\ t > now
    /\ now' = t
    /\ UNCHANGED <<ThrottlingHash, siphashkey_throttling, THROTTLING_PERIOD,
                   THROTTLING_COUNT, ret, sptr, cond, pc, run>>

\* The configuration is (re)loaded.
Rehash(p, c) ==
    /\ pc = "idle"
    /\ UNCHANGED <<wvars, ovars>>
    /\ <<p, c>> # <<THROTTLING_PERIOD, THROTTLING_COUNT>>
    /\ THROTTLING_PERIOD' = p
    /\ THROTTLING_COUNT' = c
    /\ run' = [ip \in IPs |-> IF run[ip] > 0 THEN -1 ELSE run[ip]]
    /\ UNCHANGED <<ThrottlingHash, siphashkey_throttling, now, ret, sptr, cond, pc>>

\* Whether throttle_can_connect gets as far as find_tkl_exception.
ConsultsException(ip) ==
    /\ THROTTLING_PERIOD # 0
    /\ THROTTLING_COUNT # 0
    /\ HasBucket(ip)

Disabled == THROTTLING_PERIOD = 0 \/ THROTTLING_COUNT = 0

\* What a call of throttle_can_connect meets.
CondOf(ip, exc) ==
    IF Disabled THEN "disabled"
    ELSE IF ~HasBucket(ip) THEN "nobucket"
    ELSE IF exc THEN "excepted"
    ELSE "counted"

\* A connection attempt: add_connection calls throttle_can_connect.
ThrottleCanConnect(ip, exc) ==
    /\ pc = "idle"
    /\ UNCHANGED <<wvars, ovars>>
    /\ exc => ConsultsException(ip)
    /\ sptr' = ip
    /\ cond' = CondOf(ip, exc)
    /\ UNCHANGED <<siphashkey_throttling, THROTTLING_PERIOD, THROTTLING_COUNT, now>>
    /\ LET r == throttle_can_connect(ip, exc)
       IN  /\ ThrottlingHash' = r.hash
           /\ ret' = r.ret
           /\ pc' = IF r.ret = 1 THEN "add" ELSE "idle"
    /\ run' = [run EXCEPT ![ip] =
                 IF Disabled THEN @
                 ELSE IF ~HasBucket(ip) THEN 1
                 ELSE IF exc \/ @ = -1 THEN -1
                 ELSE IF @ < RunCap THEN @ + 1 ELSE @]

\* ... and, on a return of 1, add_throttling_bucket.
AddThrottlingBucket ==
    /\ pc = "add"
    /\ UNCHANGED <<wvars, ovars>>
    /\ ThrottlingHash' = add_throttling_bucket(sptr)
    /\ pc' = "idle"
    /\ UNCHANGED <<siphashkey_throttling, THROTTLING_PERIOD, THROTTLING_COUNT,
                   now, ret, sptr, cond, run>>

\* The scheduler runs the "bucketcleaning" event.
Sweep ==
    /\ pc = "idle"
    /\ UNCHANGED <<wvars, ovars>>
    /\ ThrottlingHash' = e_clean_out_throttling_buckets
    /\ run' = [ip \in IPs |->
                 IF \E i \in Buckets : \E j \in 1..Len(ThrottlingHash'[i]) :
                        ThrottlingHash'[i][j].ip = ip
                 THEN run[ip] ELSE 0]
    /\ UNCHANGED <<siphashkey_throttling, THROTTLING_PERIOD, THROTTLING_COUNT,
                   now, ret, sptr, cond, pc>>

TNext ==
    \/ \E t \in Times : Tick(t)
    \/ \E p \in Periods, c \in Counts : Rehash(p, c)
    \/ \E ip \in IPs, exc \in BOOLEAN : ThrottleCanConnect(ip, exc)
    \/ AddThrottlingBucket
    \/ Sweep

SpecThrottle == TInit /\ [][TNext]_vars

(***************************************************************************)
(* Properties of the throttling store                                      *)
(***************************************************************************)
Enabled == ~Disabled

\* The count of the bucket of ip (0 when it has none).
CountOf(ip) == IF HasBucket(ip) THEN BucketOf(ip).count ELSE 0

\* C1: with threshold T in force since the bucket-less attempt of a
\* non-excepted address, that attempt returns 1 (and the caller's
\* add_throttling_bucket leaves count 1), attempts 2..T return 2 (allowed),
\* and attempt T+1 returns 0 (denied).
C1_AllowUpToThreshold ==
    (ret # -1 /\ run[sptr] >= 1) =>
        LET k == run[sptr]
            T == THROTTLING_COUNT
        IN  /\ Enabled
            /\ k = 1 => /\ ret = 1
                        /\ pc = "idle" => HasBucket(sptr) /\ CountOf(sptr) = 1
            /\ (2 <= k /\ k <= T) => ret = 2 /\ CountOf(sptr) = k
            /\ k = T + 1 => ret = 0

C1_Witness ==
    /\ ret = 0
    /\ THROTTLING_COUNT = MaxThreshold
    /\ run[sptr] = THROTTLING_COUNT + 1

C3_ExceptedNeverDenied ==
    cond = "excepted" => ret = 2

C3_Witness ==
    /\ cond = "excepted"
    /\ ret = 2
    /\ HasBucket(sptr)
    /\ CountOf(sptr) >= THROTTLING_COUNT

\* C4 as claimed: a call for an excepted address that has a bucket is
\* allowed and the bucket's count is incremented by it.
C4_Claimed_ExceptedCounted ==
    [][\A ip \in IPs :
         ThrottleCanConnect(ip, TRUE)
             => ret' # 0 /\ CountOf(ip)' = CountOf(ip) + 1]_vars

\* C4, amended: such a call is allowed and leaves the bucket's count (the
\* whole table) unchanged.
C4_ExceptedNotCounted ==
    [][\A ip \in IPs :
         ThrottleCanConnect(ip, TRUE)
             => /\ ret' = 2
                /\ CountOf(ip)' = CountOf(ip)
                /\ ThrottlingHash' = ThrottlingHash]_vars

C4_Witness ==
    /\ cond = "excepted"
    /\ ret = 2
    /\ HasBucket(sptr)
    /\ CountOf(sptr) < THROTTLING_COUNT

\* The chains with the buckets older than window w taken out.
KeepYoung(w) ==
    [i \in Buckets |->
        SelectSeq(ThrottlingHash[i], LAMBDA n : now - n.since <= w)]

\* C5 as claimed: the sweep removes exactly the buckets older than the
\* configured window (THROTTLING_PERIOD) and leaves the others as they were.
C5_Claimed_SweepConfiguredWindow ==
    [][Sweep => ThrottlingHash' = KeepYoung(THROTTLING_PERIOD)]_vars

\* C5, amended: the sweep removes exactly the buckets older than the window,
\* which is THROTTLING_PERIOD, or 15 when THROTTLING_PERIOD is zero; the
\* others stay in their chains, in order, unchanged; a second sweep at the
\* same time changes nothing.
C5_SweepWindow ==
    [][Sweep =>
         /\ ThrottlingHash' =
              KeepYoung(IF THROTTLING_PERIOD = 0 THEN 15 ELSE THROTTLING_PERIOD)
         /\ e_clean_out_throttling_buckets' = ThrottlingHash']_vars

\* A sweep took the bucket the last call had found, and a bucket whose age
\* is exactly the window is in the table.
C5_Witness ==
    /\ \E ip \in IPs : HasBucket(ip) /\ now - BucketOf(ip).since = Window
    /\ \E ip \in IPs : ~HasBucket(ip) /\ sptr = ip /\ cond \in {"counted", "excepted"}

\* C6: the since of a bucket never changes while the bucket exists; a sweep
\* at a time later than since + window removes the bucket; and a call for an
\* address without a bucket returns 1 (throttling enabled), after which the
\* caller creates a fresh bucket.
C6_DenialEnds ==
    [][/\ ThrottlingHash' # ThrottlingHash => \A ip \in IPs :
            (HasBucket(ip) /\ HasBucket(ip)')
                => BucketOf(ip)'.since = BucketOf(ip).since
       /\ Sweep => \A ip \in IPs :
            (HasBucket(ip) /\ now > BucketOf(ip).since + Window)
                => ~HasBucket(ip)'
       /\ \A ip \in IPs :
            (Enabled /\ ~HasBucket(ip) /\ ThrottleCanConnect(ip, FALSE))
                => ret' = 1 /\ pc' = "add"]_vars

\* The address denied last has lost its bucket to the sweep.
C6_Witness ==
    /\ ret = 0
    /\ cond = "counted"
    /\ ~HasBucket(sptr)
    /\ Enabled

\* C7: with THROTTLING_PERIOD or THROTTLING_COUNT zero, throttle_can_connect
\* returns 2 and leaves ThrottlingHash as it was.
C7_DisabledAllowsUntracked ==
    [][\A ip \in IPs, exc \in BOOLEAN :
         (Disabled /\ ThrottleCanConnect(ip, exc))
             => /\ ret' = 2
                /\ pc' = "idle"
                /\ ThrottlingHash' = ThrottlingHash]_vars

\* A call met the disabled configuration for an address whose bucket is at
\* the last threshold or above.
C7_Witness ==
    /\ cond = "disabled"
    /\ ret = 2
    /\ HasBucket(sptr)
    /\ CountOf(sptr) >= MaxThreshold

(***************************************************************************)
(* Watch registry                                                          *)
(***************************************************************************)
\* tolower() on one byte.
tolower(c) == IF c >= 65 /\ c <= 90 THEN c + 32 ELSE c

\* A text with every byte folded, as siphash_nocase reads it.
Fold(name) == [i \in 1..Len(name) |-> tolower(name[i])]

\* mycmp(a, b): 0 when the texts are equal up to the case of their letters.
mycmp(a, b) ==
    IF /\ Len(a) = Len(b)
       /\ \A i \in 1..Len(a) : tolower(a[i]) = tolower(b[i])
    THEN 0 ELSE 1

\* siphash_nocase(name, siphashkey_watch) % WATCH_HASH_TABLE_SIZE
hash_watch_nick_name(name) == siphashkey_watch[Fold(name)] % WATCH_HASH_TABLE_SIZE

\* siphash_generate_key(siphashkey_watch); the slots are interchangeable, so
\* only the keys that send "bob" to slot 0 are drawn.
WatchKeys == {f \in [{Fold(n) : n \in Nicks} -> WatchSlots] : f[bob] = 0}

\* The walk "while (anptr && mycmp(anptr->nick, nick)) anptr = anptr->hnext":
\* the position in the chain of the first header for nick, 0 when there is none.
RECURSIVE FindHeader(_, _, _, _)
FindHeader(heap, chain, nick, i) ==
    IF i > Len(chain) THEN 0
    ELSE IF mycmp(heap[chain[i]].nick, nick) = 0 THEN i
    ELSE FindHeader(heap, chain, nick, i + 1)

\* The walk "while (lp && (lp->value.cptr != cptr)) lp = lp->next" over the
\* links under a header: the position of the link of cptr, 0 when there is none.
RECURSIVE FindClient(_, _, _)
FindClient(links, cptr, i) ==
    IF i > Len(links) THEN 0
    ELSE IF links[i].cptr = cptr THEN i
    ELSE FindClient(links, cptr, i + 1)

\* The walk "while (lp && (lp->value.wptr != anptr)) lp = lp->next" over the
\* links of a client: the position of the link to anptr, 0 when there is none.
RECURSIVE FindWptr(_, _, _)
FindWptr(links, anptr, i) ==
    IF i > Len(links) THEN 0
    ELSE IF links[i].wptr = anptr THEN i
    ELSE FindWptr(links, anptr, i + 1)

\* A list with the element at position i unlinked (last->next = lp->next, or
\* the head moved on).
Unlink(list, i) == [j \in 1..(Len(list) - 1) |-> IF j < i THEN list[j] ELSE list[j + 1]]

\* safe_alloc: some header that is not allocated.
FreePtrs(heap) == {p \in WatchPtrs : heap[p] = FreeCell}

\* hash_get_watch(nick): the header for nick, or NULL.
hash_get_watch(nick) ==
    LET chain == watchTable[hash_watch_nick_name(nick)]
        i     == FindHeader(watchHeap, chain, nick, 1)
    IN  IF i = 0 THEN NULL ELSE chain[i]

\* The registry as one value.
Registry == [table |-> watchTable, heap |-> watchHeap,
             lwatch |-> local_watch, lwatches |-> local_watches]

\* --- a variant of add_to_watch_hash_table with a slip in it: the count of
\* watches raised whether or not an entry was made ---
add_to_watch_hash_table_recount(nick, cptr, awaynotify, p) ==
    LET hashv == hash_watch_nick_name(nick)
        chain == watchTable[hashv]
        i     == FindHeader(watchHeap, chain, nick, 1)
        anptr == IF i = 0 THEN p ELSE chain[i]
        heap1 == IF i = 0
                 THEN [watchHeap EXCEPT ![p] =
                         [nick |-> nick, lasttime |-> now, watch |-> << >>]]
                 ELSE watchHeap
        tab1  == IF i = 0
                 THEN [watchTable EXCEPT ![hashv] = <<p>> \o chain]
                 ELSE watchTable
        lp    == FindClient(heap1[anptr].watch, cptr, 1)
    IN  IF lp # 0
        THEN [table |-> tab1, heap |-> heap1,
              lwatch |-> local_watch,
              lwatches |-> [local_watches EXCEPT ![cptr] = @ + 1]]
        ELSE [table |-> tab1,
              heap |-> [heap1 EXCEPT ![anptr].watch =
                          <<[cptr |-> cptr, flags |-> awaynotify]>> \o @],
              lwatch |-> [local_watch EXCEPT ![cptr] =
                          <<[wptr |-> anptr, flags |-> awaynotify]>> \o @],
              lwatches |-> [local_watches EXCEPT ![cptr] = @ + 1]]

\* add_to_watch_hash_table(nick, cptr, awaynotify), with the header p that
\* safe_alloc returns if one is made.
add_to_watch_hash_table(nick, cptr, awaynotify, p) ==
    LET hashv == hash_watch_nick_name(nick)
        chain == watchTable[hashv]
        i     == FindHeader(watchHeap, chain, nick, 1)
        \* If found NULL (no header for this nick), make one...
        anptr == IF i = 0 THEN p ELSE chain[i]
        heap1 == IF i = 0
                 THEN [watchHeap EXCEPT ![p] =
                         [nick |-> nick, lasttime |-> now, watch |-> << >>]]
                 ELSE watchHeap
        tab1  == IF i = 0
                 THEN [watchTable EXCEPT ![hashv] = <<p>> \o chain]
                 ELSE watchTable
        \* Is this client already on the watch-list?
        lp    == FindClient(heap1[anptr].watch, cptr, 1)
    IN  IF lp # 0
        THEN [table |-> tab1, heap |-> heap1,
              lwatch |-> local_watch, lwatches |-> local_watches]
        ELSE [table |-> tab1,
              heap |-> [heap1 EXCEPT ![anptr].watch =
                          <<[cptr |-> cptr, flags |-> awaynotify]>> \o @],
              lwatch |-> [local_watch EXCEPT ![cptr] =
                          <<[wptr |-> anptr, flags |-> awaynotify]>> \o @],
              lwatches |-> [local_watches EXCEPT ![cptr] = @ + 1]]

\* What del_from_watch_hash_table(nick, cptr) meets.
del_cond(nick, cptr) ==
    LET anptr == hash_get_watch(nick)
    IN  IF anptr = NULL THEN "del_nowatch"
        ELSE IF FindClient(watchHeap[anptr].watch, cptr, 1) = 0 THEN "del_noclient"
        ELSE IF FindWptr(local_watch[cptr], anptr, 1) = 0 THEN "del_odd"
        ELSE "del_done"

\* --- variants of del_from_watch_hash_table with a slip in them ---
\* the header left in its chain when its last subscriber goes
del_from_watch_hash_table_keepheader(nick, cptr) ==
    LET hashv == hash_watch_nick_name(nick)
        chain == watchTable[hashv]
        i     == FindHeader(watchHeap, chain, nick, 1)
    IN  IF i = 0 THEN [reg |-> Registry, out |-> << >>]
        ELSE
        LET anptr == chain[i]
            lp    == FindClient(watchHeap[anptr].watch, cptr, 1)
        IN  IF lp = 0 THEN [reg |-> Registry, out |-> << >>]
            ELSE
            LET links == Unlink(watchHeap[anptr].watch, lp)
                cl    == FindWptr(local_watch[cptr], anptr, 1)
                lw1   == IF cl = 0 THEN local_watch
                         ELSE [local_watch EXCEPT ![cptr] = Unlink(@, cl)]
            IN  [reg |-> [table |-> watchTable,
                          heap |-> [watchHeap EXCEPT ![anptr].watch = links],
                          lwatch |-> lw1,
                          lwatches |-> [local_watches EXCEPT ![cptr] = @ - 1]],
                 out |-> << >>]

\* the link in the client's own list left behind
del_from_watch_hash_table_oneside(nick, cptr) ==
    LET hashv == hash_watch_nick_name(nick)
        chain == watchTable[hashv]
        i     == FindHeader(watchHeap, chain, nick, 1)
    IN  IF i = 0 THEN [reg |-> Registry, out |-> << >>]
        ELSE
        LET anptr == chain[i]
            lp    == FindClient(watchHeap[anptr].watch, cptr, 1)
        IN  IF lp = 0 THEN [reg |-> Registry, out |-> << >>]
            ELSE
            LET links == Unlink(watchHeap[anptr].watch, lp)
                gone  == links = << >>
            IN  [reg |-> [table |-> IF gone
                                    THEN [watchTable EXCEPT ![hashv] = Unlink(chain, i)]
                                    ELSE watchTable,
                          heap |-> IF gone
                                   THEN [watchHeap EXCEPT ![anptr] = FreeCell]
                                   ELSE [watchHeap EXCEPT ![anptr].watch = links],
                          lwatch |-> local_watch,
                          lwatches |-> [local_watches EXCEPT ![cptr] = @ - 1]],
                 out |-> << >>]

\* the count of watches lowered also when there was nothing to remove
del_from_watch_hash_table_countdown(nick, cptr) ==
    LET hashv == hash_watch_nick_name(nick)
        chain == watchTable[hashv]
        i     == FindHeader(watchHeap, chain, nick, 1)
    IN  IF i = 0 THEN [reg |-> [Registry EXCEPT !.lwatches[cptr] = @ - 1], out |-> << >>]
        ELSE
        LET anptr == chain[i]
            lp    == FindClient(watchHeap[anptr].watch, cptr, 1)
        IN  IF lp = 0 THEN [reg |-> [Registry EXCEPT !.lwatches[cptr] = @ - 1], out |-> << >>]
            ELSE
            LET \* Fix the linked list under header, then remove the watch entry
                links == Unlink(watchHeap[anptr].watch, lp)
                \* Do the same regarding the links in client-record...
                cl    == FindWptr(local_watch[cptr], anptr, 1)
                lw1   == IF cl = 0 THEN local_watch
                         ELSE [local_watch EXCEPT ![cptr] = Unlink(@, cl)]
                out   == IF cl = 0 THEN <<[to |-> "ops", reply |-> "WATCH debug error"]>>
                         ELSE << >>
                \* In case this header is now empty of notices, remove it
                gone  == links = << >>
            IN  [reg |-> [table |-> IF gone
                                    THEN [watchTable EXCEPT ![hashv] = Unlink(chain, i)]
                                    ELSE watchTable,
                          heap |-> IF gone
                                   THEN [watchHeap EXCEPT ![anptr] = FreeCell]
                                   ELSE [watchHeap EXCEPT ![anptr].watch = links],
                          lwatch |-> lw1,
                          \* Update count of notifies on nick
                          lwatches |-> [local_watches EXCEPT ![cptr] = @ - 1]],
                 out |-> out]

\* del_from_watch_hash_table(nick, cptr): the registry it leaves, and what it
\* sends to the operators.
del_from_watch_hash_table(nick, cptr) ==
    LET hashv == hash_watch_nick_name(nick)
        chain == watchTable[hashv]
        i     == FindHeader(watchHeap, chain, nick, 1)
    IN  IF i = 0 THEN [reg |-> Registry, out |-> << >>]   \* No such watch
        ELSE
        LET anptr == chain[i]
            lp    == FindClient(watchHeap[anptr].watch, cptr, 1)
        IN  IF lp = 0 THEN [reg |-> Registry, out |-> << >>]   \* No such client to watch
            ELSE
            LET \* Fix the linked list under header, then remove the watch entry
                links == Unlink(watchHeap[anptr].watch, lp)
                \* Do the same regarding the links in client-record...
                cl    == FindWptr(local_watch[cptr], anptr, 1)
                lw1   == IF cl = 0 THEN local_watch
                         ELSE [local_watch EXCEPT ![cptr] = Unlink(@, cl)]
                out   == IF cl = 0 THEN <<[to |-> "ops", reply |-> "WATCH debug error"]>>
                         ELSE << >>
                \* In case this header is now empty of notices, remove it
                gone  == links = << >>
            IN  [reg |-> [table |-> IF gone
                                    THEN [watchTable EXCEPT ![hashv] = Unlink(chain, i)]
                                    ELSE watchTable,
                          heap |-> IF gone
                                   THEN [watchHeap EXCEPT ![anptr] = FreeCell]
                                   ELSE [watchHeap EXCEPT ![anptr].watch = links],
                          lwatch |-> lw1,
                          \* Update count of notifies on nick
                          lwatches |-> [local_watches EXCEPT ![cptr] = @ - 1]],
                 out |-> out]

\* --- a variant of the loop of hash_del_watch_list with a slip in it: the
\* loop left at the debug error ---
RECURSIVE DrainWatch_abort(_, _, _, _, _, _)
DrainWatch_abort(np, k, cptr, table, heap, out) ==
    IF k > Len(np) THEN [table |-> table, heap |-> heap, out |-> out]
    ELSE
    LET anptr == np[k].wptr
        lp    == FindClient(heap[anptr].watch, cptr, 1)
    IN  IF lp = 0
        THEN [table |-> table, heap |-> heap,
              out |-> Append(out, [to |-> "ops", reply |-> "WATCH Debug error"])]
        ELSE
        LET links == Unlink(heap[anptr].watch, lp)
            hashv == siphashkey_watch[Fold(heap[anptr].nick)] % WATCH_HASH_TABLE_SIZE
            pos   == CHOOSE j \in 1..Len(table[hashv]) :
                        /\ table[hashv][j] = anptr
                        /\ \A m \in 1..(j - 1) : table[hashv][m] # anptr
        IN  IF links = << >>
            THEN DrainWatch_abort(np, k + 1, cptr,
                                  [table EXCEPT ![hashv] = Unlink(@, pos)],
                                  [heap EXCEPT ![anptr] = FreeCell], out)
            ELSE DrainWatch_abort(np, k + 1, cptr, table,
                                  [heap EXCEPT ![anptr].watch = links], out)

\* The loop of hash_del_watch_list over the links np of cptr, from position k:
\* the table and the headers it leaves, and what it sends to the operators.
RECURSIVE DrainWatch(_, _, _, _, _, _)
DrainWatch(np, k, cptr, table, heap, out) ==
    IF k > Len(np) THEN [table |-> table, heap |-> heap, out |-> out]
    ELSE
    LET anptr == np[k].wptr
        lp    == FindClient(heap[anptr].watch, cptr, 1)
    IN  IF lp = 0
        THEN \* Not found, another "worst case" debug error
             DrainWatch(np, k + 1, cptr, table, heap,
                        Append(out, [to |-> "ops", reply |-> "WATCH Debug error"]))
        ELSE
        LET links == Unlink(heap[anptr].watch, lp)
            hashv == siphashkey_watch[Fold(heap[anptr].nick)] % WATCH_HASH_TABLE_SIZE
            \* "while (np2 != anptr)": the position of anptr in its chain
            pos   == CHOOSE j \in 1..Len(table[hashv]) :
                        /\ table[hashv][j] = anptr
                        /\ \A m \in 1..(j - 1) : table[hashv][m] # anptr
        IN  IF links = << >>
            THEN DrainWatch(np, k + 1, cptr,
                            [table EXCEPT ![hashv] = Unlink(@, pos)],
                            [heap EXCEPT ![anptr] = FreeCell], out)
            ELSE DrainWatch(np, k + 1, cptr, table,
                            [heap EXCEPT ![anptr].watch = links], out)

\* --- a variant of hash_del_watch_list with a slip in it: the count of
\* watches left as it was ---
hash_del_watch_list_keepcount(cptr) ==
    IF local_watch[cptr] = << >>
    THEN [reg |-> Registry, out |-> << >>]
    ELSE
    LET d == DrainWatch(local_watch[cptr], 1, cptr, watchTable, watchHeap, << >>)
    IN  [reg |-> [table |-> d.table, heap |-> d.heap,
                  lwatch |-> [local_watch EXCEPT ![cptr] = << >>],
                  lwatches |-> local_watches],
         out |-> d.out]

\* hash_del_watch_list(cptr)
hash_del_watch_list(cptr) ==
    IF local_watch[cptr] = << >>
    THEN [reg |-> Registry, out |-> << >>]          \* Nothing to do
    ELSE
    LET d == DrainWatch(local_watch[cptr], 1, cptr, watchTable, watchHeap, << >>)
    IN  [reg |-> [table |-> d.table, heap |-> d.heap,
                  lwatch |-> [local_watch EXCEPT ![cptr] = << >>],
                  lwatches |-> [local_watches EXCEPT ![cptr] = 0]],
         out |-> d.out]

\* --- a variant of the loop of hash_check_watch: the away flag not looked at ---
RECURSIVE Notify_noflags(_, _, _)
Notify_noflags(links, k, reply) ==
    IF k > Len(links) THEN << >>
    ELSE <<[to |-> links[k].cptr, reply |-> reply]>> \o Notify_noflags(links, k + 1, reply)

\* The loop of hash_check_watch over the links under the header, from
\* position k: the numerics it sends.
RECURSIVE Notify(_, _, _)
Notify(links, k, reply) ==
    IF k > Len(links) THEN << >>
    ELSE IF reply \notin AwayReplies
         THEN <<[to |-> links[k].cptr, reply |-> reply]>> \o Notify(links, k + 1, reply)
         ELSE IF links[k].flags = 0
              THEN Notify(links, k + 1, reply)   \* not interested in away/unaway
              ELSE <<[to |-> links[k].cptr, reply |-> reply]>> \o Notify(links, k + 1, reply)

\* hash_check_watch(cptr, reply) for a client named name.
hash_check_watch(name, reply) ==
    LET anptr == hash_get_watch(name)
    IN  IF anptr = NULL
        THEN [heap |-> watchHeap, out |-> << >>]    \* This nick isn't on watch
        ELSE [heap |-> [watchHeap EXCEPT ![anptr].lasttime = now],
              out |-> Notify(watchHeap[anptr].watch, 1, reply)]

(***************************************************************************)
(* Actions of the watch registry                                           *)
(***************************************************************************)
\* The throttling store as init_hash leaves it, with no configuration read.
ThrottleIdle ==
    /\ ThrottlingHash = [i \in Buckets |-> << >>]
    /\ siphashkey_throttling = [ip \in IPs |-> 0]
    /\ THROTTLING_PERIOD = 0
    /\ THROTTLING_COUNT = 0
    /\ now = 0
    /\ ret = -1
    /\ sptr = NoIP
    /\ cond = "none"
    /\ pc = "idle"
    /\ run = [ip \in IPs |-> 0]

WInit ==
    /\ ThrottleIdle
    /\ TablesIdle
    /\ WatchEmpty
    /\ siphashkey_watch \in WatchKeys

SetRegistry(reg) ==
    /\ watchTable' = reg.table
    /\ watchHeap' = reg.heap
    /\ local_watch' = reg.lwatch
    /\ local_watches' = reg.lwatches

\* WATCH +nick (awaynotify 0) or WATCH +nick with away notification (1).
AddToWatch(nick, cptr, awaynotify) ==
    /\ \/ hash_get_watch(nick) # NULL
       \/ FreePtrs(watchHeap) # {}
    /\ LET p == IF FreePtrs(watchHeap) = {} THEN NULL ELSE MinOf(FreePtrs(watchHeap))
       IN  SetRegistry(add_to_watch_hash_table(nick, cptr, awaynotify, p))
    /\ sent' = << >>
    /\ wcond' = IF hash_get_watch(nick) # NULL
                   /\ FindClient(watchHeap[hash_get_watch(nick)].watch, cptr, 1) # 0
                THEN "add_dup" ELSE "add_new"
    /\ UNCHANGED <<siphashkey_watch, tvars, ovars>>

\* WATCH -nick.
DelFromWatch(nick, cptr) ==
    /\ LET r == del_from_watch_hash_table(nick, cptr)
       IN  /\ SetRegistry(r.reg)
           /\ sent' = r.out
    /\ wcond' = del_cond(nick, cptr)
    /\ UNCHANGED <<siphashkey_watch, tvars, ovars>>

\* WATCH C, or the client exits.
HashDelWatchList(cptr) ==
    /\ LET r == hash_del_watch_list(cptr)
       IN  /\ SetRegistry(r.reg)
           /\ sent' = r.out
    /\ wcond' = IF local_watch[cptr] = << >> THEN "dellist_none" ELSE "dellist_done"
    /\ UNCHANGED <<siphashkey_watch, tvars, ovars>>

\* A client named name logs on or off, or changes its away status.
HashCheckWatch(name, reply) ==
    /\ LET r == hash_check_watch(name, reply)
       IN  /\ sent' = r.out
           /\ watchHeap' = r.heap
    /\ wcond' = IF hash_get_watch(name) = NULL THEN "check_nowatch" ELSE "check_done"
    /\ UNCHANGED <<watchTable, local_watch, local_watches, siphashkey_watch, tvars, ovars>>

WNext ==
    \/ \E nick \in Nicks, cptr \in Clients, awaynotify \in {0, 1} :
          AddToWatch(nick, cptr, awaynotify)
    \/ \E nick \in Nicks, cptr \in Clients : DelFromWatch(nick, cptr)
    \/ \E cptr \in Clients : HashDelWatchList(cptr)
    \/ \E name \in Nicks, reply \in Replies : HashCheckWatch(name, reply)

SpecWatch == WInit /\ [][WNext]_vars

(***************************************************************************)
(* Properties of the watch registry                                        *)
(***************************************************************************)
\* The headers linked into watchTable.
Linked == {watchTable[i][j] : <<i, j>> \in
             {ij \in WatchSlots \X WatchPtrs : ij[2] <= Len(watchTable[ij[1]])}}

\* How often header p is linked into watchTable.
TimesLinked(p) ==
    Cardinality({ij \in WatchSlots \X (1..(MaxWatchHeaders + 1)) :
                    ij[2] <= Len(watchTable[ij[1]]) /\ watchTable[ij[1]][ij[2]] = p})

\* How often header p lists client c, and how often c's own list points to p.
HeaderSide(p, c) ==
    Cardinality({i \in 1..Len(watchHeap[p].watch) : watchHeap[p].watch[i].cptr = c})
ClientSide(p, c) ==
    Cardinality({i \in 1..Len(local_watch[c]) : local_watch[c][i].wptr = p})

\* C8: a header is in watchTable if and only if its subscriber list is not
\* empty: every linked header is allocated and lists somebody, every
\* allocated header is linked exactly once, and hash_get_watch finds a header
\* only if it lists somebody.
C8_HeaderIffSubscribers ==
    /\ \A p \in Linked : watchHeap[p] # FreeCell /\ watchHeap[p].watch # << >>
    /\ \A p \in WatchPtrs : watchHeap[p].watch # << >> => TimesLinked(p) = 1
    /\ \A p \in WatchPtrs : watchHeap[p] # FreeCell => p \in Linked
    /\ \A nick \in Nicks :
          hash_get_watch(nick) # NULL =>
              watchHeap[hash_get_watch(nick)].watch # << >>

\* The unsubscribe of the last subscriber has emptied the table.
C8_Witness ==
    /\ wcond = "del_done"
    /\ \A i \in WatchSlots : watchTable[i] = << >>
    /\ \A nick \in Nicks : hash_get_watch(nick) = NULL

\* C9: the two sides agree: header p lists client c as often as c's own
\* list points to p, and at most once; every entry of a client's list
\* points to a header that is linked into watchTable.
C9_TwoSidesAgree ==
    /\ \A p \in WatchPtrs, c \in Clients :
          /\ HeaderSide(p, c) = ClientSide(p, c)
          /\ HeaderSide(p, c) <= 1
    /\ \A c \in Clients : \A i \in 1..Len(local_watch[c]) :
          local_watch[c][i].wptr \in Linked

\* After an unsubscribe that took a link out of both sides: a header with
\* two subscribers, and a client that watches two nicknames.
C9_Witness ==
    /\ wcond = "del_done"
    /\ \E p \in WatchPtrs : Len(watchHeap[p].watch) = 2
    /\ \E c \in Clients : Len(local_watch[c]) = 2

\* The clients that watch name, by their own lists, and those of them that
\* asked for away notification.
Watchers(name) ==
    {c \in Clients : \E i \in 1..Len(local_watch[c]) :
        mycmp(watchHeap[local_watch[c][i].wptr].nick, name) = 0}
AwayWatchers(name) ==
    {c \in Clients : \E i \in 1..Len(local_watch[c]) :
        /\ mycmp(watchHeap[local_watch[c][i].wptr].nick, name) = 0
        /\ local_watch[c][i].flags # 0}

\* How many numerics of the last operation went to c.
SentTo(msgs, c) == Cardinality({i \in 1..Len(msgs) : msgs[i].to = c})

\* What hash_check_watch sends and leaves, for every name and reply it can
\* be called with.
FanOut ==
    \A name \in Nicks, reply \in Replies :
       LET r  == hash_check_watch(name, reply)
           to == IF reply \in AwayReplies
                 THEN AwayWatchers(name) ELSE Watchers(name)
       IN  /\ \A c \in Clients : SentTo(r.out, c) = IF c \in to THEN 1 ELSE 0
           /\ \A i \in 1..Len(r.out) : r.out[i].reply = reply
           /\ \A p \in WatchPtrs :
                 /\ r.heap[p].nick = watchHeap[p].nick
                 /\ r.heap[p].watch = watchHeap[p].watch
           /\ hash_get_watch(name) = NULL =>
                 r.out = << >> /\ r.heap = watchHeap

\* The step of hash_check_watch: the numerics sent are to watchers only and
\* of one reply, and the table, the lists and the subscribers are as before.
FanOutStep ==
    wcond' \in {"check_nowatch", "check_done"} =>
       /\ UNCHANGED <<watchTable, local_watch, local_watches>>
       /\ \A p \in WatchPtrs :
             /\ watchHeap'[p].nick = watchHeap[p].nick
             /\ watchHeap'[p].watch = watchHeap[p].watch
       /\ \A c \in Clients : SentTo(sent', c) <= 1
       /\ \A i \in 1..Len(sent') :
             /\ sent'[i].reply = sent'[1].reply
             /\ local_watch[sent'[i].to] # << >>
             /\ sent'[i].reply \in AwayReplies =>
                   \E k \in 1..Len(local_watch[sent'[i].to]) :
                      local_watch[sent'[i].to][k].flags # 0
       /\ wcond' = "check_nowatch" => sent' = << >> /\ watchHeap' = watchHeap

\* C10: hash_check_watch for name sends one numeric, of the reply it was
\* called with, to every client that watches name (a general reply), or to
\* every such client that asked for away notification (an away reply), and
\* none to anybody else; with no header for name it sends nothing and
\* changes nothing.
C10_NotifyFanOut ==
    /\ []FanOut
    /\ [][FanOutStep]_vars

\* An away reply went to the one of two subscribers that asked for it.
C10_Witness ==
    /\ wcond = "check_done"
    /\ Len(sent) = 1
    /\ sent[1].reply \in AwayReplies
    /\ \E p \in WatchPtrs :
          /\ Len(watchHeap[p].watch) = 2
          /\ \E i, j \in 1..2 :
                /\ watchHeap[p].watch[i].flags = 1
                /\ watchHeap[p].watch[i].cptr = sent[1].to
                /\ watchHeap[p].watch[j].flags = 0
    /\ \A q \in WatchPtrs : Len(watchHeap[q].watch) # 1

\* C11: subscribing again is a no-op: for a client that already watches the
\* nickname (by its own list, in any letter case), add_to_watch_hash_table
\* with either away flag returns the registry as it is -- no header, no
\* link on either side, the count of watches as before -- and a subscribe
\* step that met the client under the header changes nothing.
C11_SubscribeIdempotent ==
    /\ [](\A nick \in Nicks, cptr \in Clients :
            cptr \in Watchers(nick) =>
               \A awaynotify \in {0, 1}, p \in FreePtrs(watchHeap) \cup {NULL} :
                  add_to_watch_hash_table(nick, cptr, awaynotify, p) = Registry)
    /\ [][wcond' = "add_dup" =>
            UNCHANGED <<watchTable, watchHeap, local_watch, local_watches>>]_vars

\* A subscribe has met its client under the header, and a header is still
\* free to be handed out.
C11_Witness ==
    /\ wcond = "add_dup"
    /\ FreePtrs(watchHeap) # {}
    /\ \E c \in Clients : local_watches[c] = 1 /\ Len(local_watch[c]) = 1

\* The clients listed under header p.
SubscribersOf(p) == {watchHeap[p].watch[i].cptr : i \in 1..Len(watchHeap[p].watch)}

\* A sequence without the elements that fail Keep.
Without(seq, drop) ==
    LET Keep(x) == x \notin drop
    IN  SelectSeq(seq, Keep)

\* The links under a header without those of client c.
LinksWithout(links, c) ==
    LET Keep(l) == l.cptr # c
    IN  SelectSeq(links, Keep)

\* C12: hash_del_watch_list(S) leaves no header that lists S, S's own list
\* empty and S's count zero; the headers that only S watched are out of
\* watchTable and are found no more; the lists and counts of the other
\* clients, and the headers somebody else watches (their place in the chain,
\* their nickname, their other links), are as before.
C12_DelListFrame ==
    [][wcond' \in {"dellist_none", "dellist_done"} =>
       \A S \in Clients :
         HashDelWatchList(S) =>
            LET mine == {p \in Linked : SubscribersOf(p) \subseteq {S}}
            IN  /\ \A p \in WatchPtrs : FindClient(watchHeap'[p].watch, S, 1) = 0
                /\ local_watch'[S] = << >>
                /\ local_watches'[S] = 0
                /\ \A p \in mine :
                      /\ p \notin Linked'
                      /\ FindHeader(watchHeap',
                                    watchTable'[hash_watch_nick_name(watchHeap[p].nick)],
                                    watchHeap[p].nick, 1) = 0
                /\ \A c \in Clients \ {S} :
                      /\ local_watch'[c] = local_watch[c]
                      /\ local_watches'[c] = local_watches[c]
                /\ \A i \in WatchSlots : watchTable'[i] = Without(watchTable[i], mine)
                /\ \A p \in Linked \ mine :
                      /\ watchHeap'[p].nick = watchHeap[p].nick
                      /\ watchHeap'[p].lasttime = watchHeap[p].lasttime
                      /\ watchHeap'[p].watch = LinksWithout(watchHeap[p].watch, S)]_vars

\* A client has dropped its list: the header only it watched is gone, the
\* header the other client watches is still there.
C12_Witness ==
    /\ wcond = "dellist_done"
    /\ \E S \in Clients :
          /\ local_watch[S] = << >>
          /\ local_watches[S] = 0
          /\ \E c \in Clients \ {S} : Len(local_watch[c]) = 1
    /\ watchHeap[1] = FreeCell
    /\ watchHeap[2] # FreeCell

(***************************************************************************)
(* Client, id and channel tables                                           *)
(***************************************************************************)
\* No client / no channel (a NULL of type Client * or Channel *), and the
\* value a caller passes to be handed back when nothing is found.
NoEntity == "NULL"
Fallback == "fallback"

\* smycmp(a, b): 0 when the texts are equal up to the case of their letters.
smycmp(a, b) == mycmp(a, b)

\* siphash_nocase(name, siphashkey_nick) % NICK_HASH_TABLE_SIZE
hash_client_name(nm) == siphashkey_nick[Fold(nm)] % NICK_HASH_TABLE_SIZE

\* siphash_nocase(name, siphashkey_chan) % CHAN_HASH_TABLE_SIZE
hash_channel_name(nm) == siphashkey_chan[Fold(nm)] % CHAN_HASH_TABLE_SIZE

\* IsServer(cptr), and cptr->user->server (NoUser: cptr->user is NULL).
IsServer(c) == c = "c3"
NoUser == << >>
UserServer == [c \in Entities |->
                 IF c = "c1" THEN sa ELSE IF c = "c2" THEN sb ELSE NoUser]

\* The entries of a chain.
InChain(chain) == {chain[j] : j \in 1..Len(chain)}

\* list_add(new, head): new becomes the first entry of the list.
list_add(new, list) == <<new>> \o list

\* list_empty(&cptr->..._hash): the node is linked into no list of the table.
list_empty(cptr, table) ==
    \A i \in DOMAIN table : \A j \in 1..Len(table[i]) : table[i][j] # cptr

\* list_del(&cptr->..._hash): the node is unlinked from the list it is in.
list_del(cptr, table) ==
    [i \in DOMAIN table |-> LET Keep(x) == x # cptr IN SelectSeq(table[i], Keep)]

\* add_to_client_hash_table(name, cptr): the clientTable it leaves.
add_to_client_hash_table(nm, cptr) ==
    IF loop_tainted # 0
    THEN clientTable
    ELSE [clientTable EXCEPT ![hash_client_name(nm)] = list_add(cptr, @)]

\* add_to_id_hash_table(name, cptr): the idTable it leaves.
add_to_id_hash_table(nm, cptr) ==
    [idTable EXCEPT ![hash_client_name(nm)] = list_add(cptr, @)]

\* --- a variant of add_to_channel_hash_table with a slip in it: a channel of
\* a name that the chain holds already is not added ---
add_to_channel_hash_table_unique(nm, chptr) ==
    LET hashv == hash_channel_name(nm)
    IN  IF \E j \in 1..Len(channelTable[hashv]) :
              Fold(chname[channelTable[hashv][j]]) = Fold(nm)
        THEN channelTable
        ELSE [channelTable EXCEPT ![hashv] = <<chptr>> \o @]

\* add_to_channel_hash_table(name, chptr): chptr becomes the head of the chain.
add_to_channel_hash_table(nm, chptr) ==
    [channelTable EXCEPT ![hash_channel_name(nm)] = <<chptr>> \o @]

\* --- a variant of del_from_client_hash_table with a slip in it: the client
\* looked for in the bucket of the name it is called with ---
del_from_client_hash_table_rehash(nm, cptr) ==
    LET hashv == hash_client_name(nm)
        Keep(x) == x # cptr
    IN  [clientTable EXCEPT ![hashv] = SelectSeq(@, Keep)]

\* --- a variant of del_from_client_hash_table with a slip in it: the entry
\* to unlink looked for by the name, and the first of that bucket taken ---
del_from_client_hash_table_byname(nm, cptr) ==
    LET hashv == hash_client_name(nm)
    IN  IF clientTable[hashv] # << >>
        THEN [clientTable EXCEPT ![hashv] = Tail(@)]
        ELSE clientTable

\* del_from_client_hash_table(name, cptr): the clientTable it leaves.
del_from_client_hash_table(nm, cptr) ==
    IF ~list_empty(cptr, clientTable) THEN list_del(cptr, clientTable) ELSE clientTable

\* del_from_id_hash_table(name, cptr): the idTable it leaves.
del_from_id_hash_table(nm, cptr) ==
    IF ~list_empty(cptr, idTable) THEN list_del(cptr, idTable) ELSE idTable

\* The walk "for (tmp = channelTable[hashv]; tmp; tmp = tmp->hnextch)
\* if (tmp == chptr)": the position of chptr in the chain, 0 when not there.
RECURSIVE FindChptr(_, _, _)
FindChptr(chain, chptr, i) ==
    IF i > Len(chain) THEN 0
    ELSE IF chain[i] = chptr THEN i
    ELSE FindChptr(chain, chptr, i + 1)

\* --- a variant of del_from_channel_hash_table with a slip in it: the chain
\* cut at chptr, so that what follows chptr is lost with it ---
del_from_channel_hash_table_cut(nm, chptr) ==
    LET hashv == hash_channel_name(nm)
        i     == FindChptr(channelTable[hashv], chptr, 1)
    IN  IF i = 0 THEN channelTable
        ELSE [channelTable EXCEPT ![hashv] = SubSeq(@, 1, i - 1)]

\* del_from_channel_hash_table(name, chptr): the channelTable it leaves.
del_from_channel_hash_table(nm, chptr) ==
    LET hashv == hash_channel_name(nm)
        i     == FindChptr(channelTable[hashv], chptr, 1)
    IN  IF i = 0 THEN channelTable                                   \* NOTFOUND
        ELSE [channelTable EXCEPT ![hashv] = Unlink(@, i)]           \* DONE

\* The walk of a chain for the first entry whose text (its name, its id, its
\* chname) equals nm under smycmp: that entry, or none.
RECURSIVE ScanChain(_, _, _, _, _)
ScanChain(chain, text, nm, i, none) ==
    IF i > Len(chain) THEN none
    ELSE IF smycmp(nm, text[chain[i]]) = 0 THEN chain[i]
    ELSE ScanChain(chain, text, nm, i + 1, none)

\* --- a variant of hash_find_client with a slip in it: the names compared
\* byte by byte ---
RECURSIVE ScanChainExact(_, _, _, _, _)
ScanChainExact(chain, text, nm, i, none) ==
    IF i > Len(chain) THEN none
    ELSE IF nm = text[chain[i]] THEN chain[i]
    ELSE ScanChainExact(chain, text, nm, i + 1, none)

hash_find_client_exact(nm, cptr) ==
    ScanChainExact(clientTable[hash_client_name(nm)], client_name, nm, 1, cptr)

\* hash_find_client(name, cptr)
hash_find_client(nm, cptr) ==
    ScanChain(clientTable[hash_client_name(nm)], client_name, nm, 1, cptr)

\* hash_find_id(name, cptr)
hash_find_id(nm, cptr) ==
    ScanChain(idTable[hash_client_name(nm)], ClientId, nm, 1, cptr)

\* hash_find_channel(name, chptr)
hash_find_channel(nm, chptr) ==
    ScanChain(channelTable[hash_channel_name(nm)], chname, nm, 1, chptr)

\* --- a variant of find_client with a slip in it: the ids looked at
\* whoever asks ---
find_client_anyone(nm, cptr) ==
    LET acptr == hash_find_id(nm, NoEntity)
    IN  IF acptr # NoEntity THEN acptr ELSE hash_find_client(nm, NoEntity)

\* find_client(name, cptr): cptr is the client that asks, or NULL.
find_client(nm, cptr) ==
    IF cptr = NoEntity \/ IsServer(cptr)
    THEN LET acptr == hash_find_id(nm, NoEntity)
         IN  IF acptr # NoEntity THEN acptr ELSE hash_find_client(nm, NoEntity)
    ELSE hash_find_client(nm, NoEntity)

\* strchr(nick, '@'): the position of the first '@' of the text, 0 when none.
RECURSIVE strchr(_, _, _)
strchr(str, ch, i) ==
    IF i > Len(str) THEN 0
    ELSE IF str[i] = ch THEN i
    ELSE strchr(str, ch, i + 1)

\* --- a variant of hash_find_nickatserver with a slip in it: the server
\* looked at only for a client that has a user record ---
hash_find_nickatserver_nouser(str, cptr) ==
    LET at    == strchr(str, At, 1)
        nick  == IF at = 0 THEN str ELSE SubSeq(str, 1, at - 1)
        serv  == SubSeq(str, at + 1, Len(str))
        acptr == find_client(nick, NoEntity)
    IN  IF acptr = NoEntity THEN NoEntity
        ELSE IF at = 0 THEN acptr
        ELSE IF UserServer[acptr] = NoUser \/ smycmp(serv, UserServer[acptr]) = 0
             THEN acptr
             ELSE cptr

\* hash_find_nickatserver(str, cptr)
hash_find_nickatserver(str, cptr) ==
    LET at    == strchr(str, At, 1)
        nick  == IF at = 0 THEN str ELSE SubSeq(str, 1, at - 1)
        serv  == SubSeq(str, at + 1, Len(str))
        acptr == find_client(nick, NoEntity)
    IN  IF acptr = NoEntity THEN NoEntity            \* client not found
        ELSE IF at = 0 THEN acptr                    \* was just 'nick'
        ELSE IF UserServer[acptr] # NoUser /\ smycmp(serv, UserServer[acptr]) = 0
             THEN acptr                              \* validated
             ELSE cptr

(***************************************************************************)
(* Actions of the tables                                                   *)
(***************************************************************************)
\* siphash_generate_key(siphashkey_nick): the slots are interchangeable, so
\* "bob" goes to slot 0; the three ids share a slot.
NickKeys == {f \in [{bob, al, t001, t002, t003} -> NickSlots] :
                f[bob] = 0 /\ f[t002] = f[t001] /\ f[t003] = f[t001]}

\* siphash_generate_key(siphashkey_chan): "#a" goes to slot 0.
ChanKeys == {f \in [{chan_a, chan_b, chan_c} -> ChanSlots] : f[chan_a] = 0}

\* siphash_generate_key(siphashkey_watch), for the nicknames of NameTexts.
NameWatchKeys == {f \in [{bob, al, t001} -> WatchSlots] : f[bob] = 0}

\* The throttling store idle and no sweep event added.
ThrottleQuiet == ThrottleIdle /\ bucketcleaning = -1 /\ chan_bucket = NoCall

\* The keys that play no part in a run.
NickKeyIdle == siphashkey_nick = [n \in {bob, al, t001, t002, t003} |-> 0]
ChanKeyIdle == siphashkey_chan = [n \in {chan_a, chan_b, chan_c} |-> 0]
WatchKeyIdle == siphashkey_watch = [n \in {bob, al, t001} |-> 0]

\* The structures of a run.  A run has the three clients with their names
\* in clientTable, or the three clients with their ids in idTable, or the
\* user c1 and the server c3 in both, or the three channels, or one client
\* that uses WATCH.
Nobody == [clients |-> {}, ids |-> {}, channels |-> {}, watchers |-> {}]

TablesInit ==
    /\ ThrottleQuiet
    /\ WatchEmpty
    /\ TablesEmpty
    /\ \/ /\ exist = [Nobody EXCEPT !.clients = Entities]
          /\ siphashkey_nick \in NickKeys
          /\ loop_tainted \in {0, 1}
          /\ ChanKeyIdle /\ WatchKeyIdle
       \/ /\ exist = [Nobody EXCEPT !.ids = Entities]
          /\ siphashkey_nick \in NickKeys
          /\ loop_tainted = 0
          /\ ChanKeyIdle /\ WatchKeyIdle
       \/ /\ exist = [Nobody EXCEPT !.clients = {"c1", "c3"}, !.ids = {"c1", "c3"}]
          /\ siphashkey_nick \in NickKeys
          /\ loop_tainted \in {0, 1}
          /\ ChanKeyIdle /\ WatchKeyIdle
       \/ /\ exist = [Nobody EXCEPT !.channels = Channels]
          /\ siphashkey_chan \in ChanKeys
          /\ loop_tainted = 0
          /\ NickKeyIdle /\ WatchKeyIdle
       \/ /\ exist = [Nobody EXCEPT !.watchers = {"A"}]
          /\ siphashkey_watch \in NameWatchKeys
          /\ loop_tainted = 0
          /\ NickKeyIdle /\ ChanKeyIdle

\* What an operation on one of the three tables leaves alone.
TableFrame == UNCHANGED <<siphashkey_nick, siphashkey_chan, loop_tainted, exist,
                          tvars, wvars, bucketcleaning, chan_bucket>>

\* A client that is in no list of clientTable is added under its name.
AddToClientHashTable(c) ==
    /\ list_empty(c, clientTable)
    /\ clientTable' = add_to_client_hash_table(client_name[c], c)
    /\ hcond' = IF loop_tainted # 0 THEN "add_client_tainted" ELSE "add_client"
    /\ UNCHANGED <<idTable, channelTable, client_name, renames>>
    /\ TableFrame

\* A client that is in no list of idTable is added under its id.
AddToIdHashTable(c) ==
    /\ list_empty(c, idTable)
    /\ idTable' = add_to_id_hash_table(ClientId[c], c)
    /\ hcond' = "add_id"
    /\ UNCHANGED <<clientTable, channelTable, client_name, renames>>
    /\ TableFrame

DelFromClientHashTable(nm, c) ==
    /\ clientTable' = del_from_client_hash_table(nm, c)
    /\ hcond' = IF list_empty(c, clientTable) THEN "del_client_none"
                ELSE IF c \in InChain(clientTable[hash_client_name(client_name[c])])
                     THEN "del_client"
                     ELSE "del_client_renamed"
    /\ UNCHANGED <<idTable, channelTable, client_name, renames>>
    /\ TableFrame

DelFromIdHashTable(nm, c) ==
    /\ idTable' = del_from_id_hash_table(nm, c)
    /\ hcond' = IF list_empty(c, idTable) THEN "del_id_none" ELSE "del_id"
    /\ UNCHANGED <<clientTable, channelTable, client_name, renames>>
    /\ TableFrame

\* The name of a client changes (the tables are not told).
Rename(c, nm) ==
    /\ renames < MaxRenames
    /\ nm # client_name[c]
    /\ client_name' = [client_name EXCEPT ![c] = nm]
    /\ renames' = renames + 1
    /\ hcond' = "rename"
    /\ UNCHANGED <<clientTable, idTable, channelTable>>
    /\ TableFrame

\* A channel that is in no chain is added under its name.
AddToChannelHashTable(ch) ==
    /\ list_empty(ch, channelTable)
    /\ channelTable' = add_to_channel_hash_table(chname[ch], ch)
    /\ hcond' = "add_chan"
    /\ UNCHANGED <<clientTable, idTable, client_name, renames>>
    /\ TableFrame

DelFromChannelHashTable(nm, ch) ==
    /\ channelTable' = del_from_channel_hash_table(nm, ch)
    /\ hcond' = IF FindChptr(channelTable[hash_channel_name(nm)], ch, 1) = 0
                THEN "del_chan_none" ELSE "del_chan"
    /\ UNCHANGED <<clientTable, idTable, client_name, renames>>
    /\ TableFrame

\* The name argument of a removal from clientTable or idTable.
AnyNames == {bob, t001}

TablesNext ==
    \/ \E c \in exist.clients : AddToClientHashTable(c)
    \/ \E c \in exist.ids : AddToIdHashTable(c)
    \/ \E c \in exist.clients, nm \in AnyNames : DelFromClientHashTable(nm, c)
    \/ \E c \in exist.ids, nm \in AnyNames : DelFromIdHashTable(nm, c)
    \/ \E c \in exist.clients, nm \in NameTexts : Rename(c, nm)
    \/ \E ch \in exist.channels : AddToChannelHashTable(ch)
    \/ \E ch \in exist.channels, nm \in {chan_a, chan_b, chan_c} :
          DelFromChannelHashTable(nm, ch)
    \/ \E cptr \in exist.watchers, nick \in NameTexts : AddToWatch(nick, cptr, 0)
    \/ \E cptr \in exist.watchers, nick \in NameTexts : DelFromWatch(nick, cptr)

SpecTables == TablesInit /\ [][TablesNext]_vars

(***************************************************************************)
(* Properties of the tables                                                *)
(***************************************************************************)
\* The texts a lookup is made with, and those that differ from a text in the
\* case of their letters at most.
LookupTexts == NameTexts \cup {t002, t003, chan_a, chan_A, chan_b, chan_c}
Variants(K) == {t \in LookupTexts : Fold(t) = Fold(K)}

\* The entries linked into a table.
LinkedIn(table) == UNION {{table[i][j] : j \in 1..Len(table[i])} : i \in DOMAIN table}

\* Another entry of the table carries the key of e.
Shadowed(e, table, text) ==
    \E o \in LinkedIn(table) \ {e} : smycmp(text[o], text[e]) = 0

\* What hash_get_watch(nick) returns on a given table and given headers.
HeaderIn(table, heap, nick) ==
    LET chain == table[hash_watch_nick_name(nick)]
        i     == FindHeader(heap, chain, nick, 1)
    IN  IF i = 0 THEN NULL ELSE chain[i]

\* The steps that insert: what a lookup returns after them.
InsertThenFind(untainted_only) ==
    /\ hcond' \in {"add_client", "add_client_tainted"} =>
          \A c \in Entities :
             AddToClientHashTable(c) /\ (untainted_only => loop_tainted = 0) =>
                \A K \in Variants(client_name[c]) : hash_find_client(K, Fallback)' = c
    /\ hcond' = "add_id" =>
          \A c \in Entities :
             AddToIdHashTable(c) =>
                \A K \in Variants(ClientId[c]) : hash_find_id(K, Fallback)' = c
    /\ hcond' = "add_chan" =>
          \A ch \in Channels :
             AddToChannelHashTable(ch) =>
                \A K \in Variants(chname[ch]) : hash_find_channel(K, Fallback)' = ch
    /\ wcond' \in {"add_new", "add_dup"} =>
          \A cptr \in Clients, nick \in NameTexts :
             AddToWatch(nick, cptr, 0) =>
                \A K \in Variants(nick) :
                   /\ HeaderIn(watchTable', watchHeap', K) # NULL
                   /\ mycmp(watchHeap'[HeaderIn(watchTable', watchHeap', K)].nick, nick) = 0

\* The steps that remove: what a lookup returns after them.
RemoveThenFind(unshadowed_only) ==
    /\ hcond' \in {"del_client", "del_client_renamed", "del_client_none"} =>
          \A c \in Entities, nm \in AnyNames :
             DelFromClientHashTable(nm, c) =>
                \A K \in Variants(client_name[c]) :
                   /\ hash_find_client(K, Fallback)' # c
                   /\ (unshadowed_only => ~Shadowed(c, clientTable, client_name)) =>
                         hash_find_client(K, Fallback)' = Fallback
    /\ hcond' \in {"del_id", "del_id_none"} =>
          \A c \in Entities, nm \in AnyNames :
             DelFromIdHashTable(nm, c) =>
                \A K \in Variants(ClientId[c]) : hash_find_id(K, Fallback)' = Fallback
    /\ hcond' \in {"del_chan", "del_chan_none"} =>
          \A ch \in Channels :
             DelFromChannelHashTable(chname[ch], ch) =>
                \A K \in Variants(chname[ch]) : hash_find_channel(K, Fallback)' = Fallback
    /\ wcond' \in {"del_done", "del_nowatch"} =>
          \A cptr \in Clients, nick \in NameTexts :
             DelFromWatch(nick, cptr) /\ exist.watchers = {cptr} =>
                \A K \in Variants(nick) : HeaderIn(watchTable', watchHeap', K) = NULL

\* A lookup returns what is linked, or what it was told to return.
FoundIsLinked ==
    \A K \in LookupTexts :
       /\ K \in NameTexts \cup {t002, t003} =>
             /\ hash_find_client(K, Fallback) \in LinkedIn(clientTable) \cup {Fallback}
             /\ hash_find_id(K, Fallback) \in LinkedIn(idTable) \cup {Fallback}
       /\ K \in {chan_a, chan_A, chan_b, chan_c} =>
             hash_find_channel(K, Fallback) \in LinkedIn(channelTable) \cup {Fallback}
       /\ K \in NameTexts =>
             hash_get_watch(K) \in Linked \cup {NULL}

\* C13 as claimed: in each of the four tables an entity inserted under key K
\* is returned by a lookup with K in any letter case, a lookup with K after
\* its removal returns the absent value, and a lookup returns only what is
\* linked.
C13_Claimed_InsertFindRemove ==
    /\ [][InsertThenFind(FALSE)]_vars
    /\ [][RemoveThenFind(FALSE)]_vars
    /\ []FoundIsLinked

\* C13 as the code has it: the same, except that add_to_client_hash_table
\* inserts nothing when loop.tainted is set, and that after a removal from
\* clientTable a lookup with K returns the absent value only if no other
\* linked client carries that name (it never returns the removed client).
C13_InsertFindRemove ==
    /\ [][InsertThenFind(TRUE)]_vars
    /\ [][RemoveThenFind(TRUE)]_vars
    /\ []FoundIsLinked

\* A client named "Bob" was added and is found as "bob".
C13_Witness ==
    /\ hcond = "add_client"
    /\ hash_find_client(bob, Fallback) \in Entities
    /\ client_name[hash_find_client(bob, Fallback)] = Bob


\* Two clients with distinct names of one bucket of clientTable, o found by
\* its name whichever of the linked clients e is removed.
ClientCollisions ==
    \A e \in LinkedIn(clientTable), o \in LinkedIn(clientTable), nm \in AnyNames :
       LET s == hash_client_name(client_name[o])
           T == del_from_client_hash_table(nm, e)
       IN  /\ smycmp(client_name[e], client_name[o]) # 0
           /\ hash_client_name(client_name[e]) = s
           /\ {e, o} \subseteq InChain(clientTable[s])
           /\ ~Shadowed(o, clientTable, client_name)
           => /\ hash_find_client(client_name[o], Fallback) = o
              /\ o \in InChain(T[s])
              /\ e \notin LinkedIn(T)
              /\ ScanChain(T[s], client_name, client_name[o], 1, Fallback) = o

\* The same for two clients with their ids in one bucket of idTable.
IdCollisions ==
    \A e \in LinkedIn(idTable), o \in LinkedIn(idTable), nm \in AnyNames :
       LET s == hash_client_name(ClientId[o])
           T == del_from_id_hash_table(nm, e)
       IN  /\ smycmp(ClientId[e], ClientId[o]) # 0
           /\ hash_client_name(ClientId[e]) = s
           => /\ hash_find_id(ClientId[o], Fallback) = o
              /\ o \in InChain(T[s])
              /\ e \notin LinkedIn(T)
              /\ ScanChain(T[s], ClientId, ClientId[o], 1, Fallback) = o

\* The same for two channels of one chain of channelTable.
ChannelCollisions ==
    \A e \in LinkedIn(channelTable), o \in LinkedIn(channelTable) :
       LET s == hash_channel_name(chname[o])
           T == del_from_channel_hash_table(chname[e], e)
       IN  /\ smycmp(chname[e], chname[o]) # 0
           /\ hash_channel_name(chname[e]) = s
           => /\ hash_find_channel(chname[o], Fallback) = o
              /\ o \in InChain(T[s])
              /\ e \notin LinkedIn(T)
              /\ ScanChain(T[s], chname, chname[o], 1, Fallback) = o

\* The same for two headers of one chain of watchTable: the header of n1 goes
\* when its last watcher leaves, the header of n2 stays where it is.
WatchCollisions ==
    \A n1 \in NameTexts, n2 \in NameTexts, cptr \in Clients :
       LET h1 == hash_get_watch(n1)
           h2 == hash_get_watch(n2)
           R  == del_from_watch_hash_table(n1, cptr).reg
       IN  /\ mycmp(n1, n2) # 0
           /\ hash_watch_nick_name(n1) = hash_watch_nick_name(n2)
           /\ h1 # NULL /\ h2 # NULL
           => /\ h1 # h2
              /\ mycmp(watchHeap[h2].nick, n2) = 0
              /\ HeaderIn(R.table, R.heap, n2) = h2
              /\ R.heap[h2] = watchHeap[h2]
              /\ SubscribersOf(h1) = {cptr} => HeaderIn(R.table, R.heap, n1) = NULL

\* C14: two entities with distinct keys of one bucket are each found by their
\* own key, and the removal of either of them, wherever in the chain it is,
\* leaves the other linked and found by its key; so in clientTable and
\* idTable, and in the chains of channelTable and watchTable.
C14_Collisions ==
    /\ ClientCollisions
    /\ IdCollisions
    /\ ChannelCollisions
    /\ WatchCollisions

\* One of three channels of one chain was removed; the two others are the
\* chain, each found by its name.
C14_Witness ==
    /\ hcond = "del_chan"
    /\ \E s \in ChanSlots :
          /\ Len(channelTable[s]) = 2
          /\ \A ch \in Channels : hash_channel_name(chname[ch]) = s
          /\ \A ch \in InChain(channelTable[s]) :
                hash_find_channel(chname[ch], Fallback) = ch


\* The names a channel is removed with.
ChanNames == {chan_a, chan_b, chan_c}

\* What the removal of an entity that is in no chain leaves.
UnlinkedRemovalLeaves ==
    /\ \A c \in Entities, nm \in AnyNames :
          /\ list_empty(c, clientTable) => del_from_client_hash_table(nm, c) = clientTable
          /\ list_empty(c, idTable) => del_from_id_hash_table(nm, c) = idTable
    /\ \A ch \in Channels, nm \in ChanNames :
          list_empty(ch, channelTable) =>
             del_from_channel_hash_table(nm, ch) = channelTable

\* The step of such a removal.
UnlinkedRemovalStep ==
    hcond' \in {"del_client_none", "del_id_none", "del_chan_none"} =>
       /\ UNCHANGED <<clientTable, idTable, channelTable, watchTable, watchHeap>>
       /\ \A c \in Entities :
             /\ DelFromClientHashTable(bob, c) => list_empty(c, clientTable)
             /\ DelFromIdHashTable(bob, c) => list_empty(c, idTable)

\* C15: del_from_client_hash_table and del_from_id_hash_table for a client
\* that is in no list (so a second removal after a first), and
\* del_from_channel_hash_table for a channel that is in no chain, leave every
\* chain as it is, and with it what is linked.
C15_UnlinkedRemovalNoOp ==
    /\ []UnlinkedRemovalLeaves
    /\ [][UnlinkedRemovalStep]_vars

\* A client that is not (or no more) in clientTable was removed from it,
\* while another client is linked.
C15_Witness ==
    /\ hcond = "del_client_none"
    /\ loop_tainted = 0
    /\ \E c \in exist.clients, o \in exist.clients :
          /\ list_empty(c, clientTable)
          /\ ~list_empty(o, clientTable)
          /\ hash_client_name(client_name[c]) = hash_client_name(client_name[o])


\* Who asks find_client: nobody (NULL), a server, or another client.
Requesters == {NoEntity} \cup Entities
Trusted(req) == req = NoEntity \/ IsServer(req)

\* The texts a client is asked for: names and ids.
ClientTexts == NameTexts \cup {t002, t003}

\* What find_client returns, by who asks.
FindClientPolicy ==
    \A nm \in ClientTexts, req \in Requesters :
       LET byid   == hash_find_id(nm, NoEntity)
           byname == hash_find_client(nm, NoEntity)
           r      == find_client(nm, req)
       IN  /\ ~Trusted(req) =>
                /\ r = byname
                /\ r # NoEntity =>
                      r \in LinkedIn(clientTable) /\ smycmp(nm, client_name[r]) = 0
                /\ \A c \in Entities :
                      smycmp(nm, ClientId[c]) = 0 /\ smycmp(nm, client_name[c]) # 0
                         => r # c
           /\ Trusted(req) =>
                /\ byid # NoEntity => r = byid
                /\ byid = NoEntity => r = byname

\* A step that leaves clientTable and the names as they are leaves what
\* find_client returns to a requester that is not a server.
FindClientNameTableOnly ==
    hcond' \in {"add_id", "del_id", "del_id_none"} =>
       \A nm \in ClientTexts, req \in Requesters :
          ~Trusted(req) => find_client(nm, req)' = find_client(nm, req)

\* C16: find_client looks at idTable only for a requester that is NULL or a
\* server; for any other requester the result is that of clientTable alone,
\* never a client of which the id but not the name is the text asked for;
\* for a NULL or server requester a match in idTable goes before a match in
\* clientTable.
C16_FindClientPolicy ==
    /\ []FindClientPolicy
    /\ [][FindClientNameTableOnly]_vars

\* "001" is the id of c1 and the name of c3: a server and NULL get c1, the
\* user c1 gets c3.
C16_Witness ==
    /\ hash_find_id(t001, NoEntity) = "c1"
    /\ hash_find_client(t001, NoEntity) = "c3"
    /\ find_client(t001, NoEntity) = "c1"
    /\ find_client(t001, "c3") = "c1"
    /\ find_client(t001, "c1") = "c3"


\* The server parts asked for, and "nick@server" as a text.
ServerTexts == {sa, SA, sb}
NickAtServer(nick, serv) == nick \o <<At>> \o serv

\* The client has a user record, on a server of that name.
OnServer(c, serv) == UserServer[c] # NoUser /\ Fold(UserServer[c]) = Fold(serv)

\* What hash_find_nickatserver returns when the nick part resolves.
NickAtServerResult ==
    \A nick \in ClientTexts :
       LET acptr == find_client(nick, NoEntity)
       IN  acptr # NoEntity =>
              /\ hash_find_nickatserver(nick, Fallback) = acptr
              /\ \A serv \in ServerTexts :
                    /\ OnServer(acptr, serv) =>
                          hash_find_nickatserver(NickAtServer(nick, serv), Fallback) = acptr
                    /\ ~OnServer(acptr, serv) =>
                          hash_find_nickatserver(NickAtServer(nick, serv), Fallback) = Fallback

\* C17: when the nick part of "nick@server" resolves to a client,
\* hash_find_nickatserver returns that client only if it has a user record
\* of which the server is the server part up to the case of the letters, and
\* the caller's fallback on another server or no user record; a text with no
\* '@' gives the resolved client with no look at the server.
C17_NickAtServer == NickAtServerResult

\* c1 (a user on server sa) is linked as "Bob" and c3 (no user record) under
\* its name "001": "bob@SA" gives c1, "bob@sb" and "001@sa" the fallback.
C17_Witness ==
    /\ find_client(bob, NoEntity) = "c1"
    /\ find_client(t001, NoEntity) = "c3"
    /\ hash_find_nickatserver(bob, Fallback) = "c1"
    /\ hash_find_nickatserver(NickAtServer(bob, SA), Fallback) = "c1"
    /\ hash_find_nickatserver(NickAtServer(bob, sb), Fallback) = Fallback
    /\ hash_find_nickatserver(NickAtServer(t001, sa), Fallback) = Fallback
    /\ hash_find_nickatserver(t001, Fallback) = "c3"


\* A chain with c taken out and the rest in its order.
ChainWithout(chain, c) == LET Keep(x) == x # c IN SelectSeq(chain, Keep)

\* The removal of a linked client, whatever name it is called with and
\* whatever the name of the client is by now.
RemovalWhateverName ==
    /\ hcond' \in {"del_client", "del_client_renamed"} =>
          \A c \in Entities, nm \in AnyNames :
             DelFromClientHashTable(nm, c) =>
                /\ c \notin LinkedIn(clientTable')
                /\ \A s \in NickSlots : clientTable'[s] = ChainWithout(clientTable[s], c)
                /\ \A K \in ClientTexts : hash_find_client(K, Fallback)' # c
    /\ hcond' = "del_id" =>
          \A c \in Entities, nm \in AnyNames :
             DelFromIdHashTable(nm, c) =>
                /\ c \notin LinkedIn(idTable')
                /\ \A s \in NickSlots : idTable'[s] = ChainWithout(idTable[s], c)
                /\ \A K \in ClientTexts : hash_find_id(K, Fallback)' # c

\* C18: del_from_client_hash_table and del_from_id_hash_table, with any name
\* argument, unlink the client from the bucket it is in, also when its name
\* has changed since it was added; afterwards no lookup returns it, neither
\* with the old nor with the new name, and the other entries of the bucket
\* are as they were.
C18_RemovalIgnoresName == [][RemovalWhateverName]_vars

\* A client that was added under one name and then renamed to a name of
\* another bucket was removed; the two other clients are still linked.
C18_Witness ==
    /\ hcond = "del_client_renamed"
    /\ \E c \in exist.clients :
          /\ client_name[c] # FirstName[c]
          /\ hash_client_name(client_name[c]) # hash_client_name(FirstName[c])
          /\ LinkedIn(clientTable) = Entities \ {c}
          /\ hash_find_client(FirstName[c], Fallback) = Fallback
          /\ hash_find_client(client_name[c], Fallback) # c


(***************************************************************************)
(* The watch registry with a link lost                                     *)
(***************************************************************************)
\* hash.c itself makes and removes the two sides of a watch together, so an
\* entry of a personal list with no counterpart under its header comes from
\* elsewhere.  BreakLink is that event: the link to c under header p is
\* lost, and nothing else changes.

\* The most entries without counterpart at a time.
MaxBroken == 1

\* The nicknames watched here: three headers, which can share a chain.
\* Client A watches any of them, client B the first; the links that are lost
\* are links to A.
FaultNicks == {Bob, al, t001}

\* The sum of f over the set S.
RECURSIVE Sum(_, _)
Sum(f, S) == IF S = {} THEN 0 ELSE LET x == CHOOSE y \in S : TRUE
                                   IN  f[x] + Sum(f, S \ {x})

\* How many entries of personal lists have no counterpart under a header:
\* BreakLink takes links under headers only, so the two sides differ by it.
Broken == Sum([c \in Clients |-> Len(local_watch[c])], Clients)
             - Sum([p \in WatchPtrs |-> Len(watchHeap[p].watch)], WatchPtrs)

\* The loop of hash_del_watch_list reads anptr->watch of every entry: whether
\* one of these reads, from position k on, is of a header that is already
\* freed (by an earlier round of the loop, when two entries point to it).
RECURSIVE DrainReadsFreed(_, _, _, _)
DrainReadsFreed(np, k, cptr, heap) ==
    IF k > Len(np) THEN FALSE
    ELSE
    LET anptr == np[k].wptr
        lp    == FindClient(heap[anptr].watch, cptr, 1)
    IN  IF heap[anptr] = FreeCell THEN TRUE
        ELSE IF lp = 0 THEN DrainReadsFreed(np, k + 1, cptr, heap)
        ELSE IF Unlink(heap[anptr].watch, lp) = << >>
             THEN DrainReadsFreed(np, k + 1, cptr, [heap EXCEPT ![anptr] = FreeCell])
             ELSE DrainReadsFreed(np, k + 1, cptr,
                                  [heap EXCEPT ![anptr].watch = Unlink(@, lp)])

\* siphash_generate_key(siphashkey_watch): the three nicknames share a chain.
FaultKeys == {f \in NameWatchKeys : f[al] = f[bob] /\ f[t001] = f[bob]}

\* Nothing undefined has happened.
Defined == wcond # "dellist_undefined"

FaultInit ==
    /\ ThrottleIdle
    /\ TablesIdle
    /\ WatchEmpty
    /\ siphashkey_watch \in FaultKeys

\* The link to c under header p is lost; the entry of c that points to p
\* stays.
BreakLink(p, c) ==
    /\ Defined
    /\ Broken < MaxBroken
    /\ watchHeap[p] # FreeCell
    /\ FindClient(watchHeap[p].watch, c, 1) # 0
    /\ watchHeap' = [watchHeap EXCEPT ![p].watch = Unlink(@, FindClient(@, c, 1))]
    /\ wcond' = "broken"
    /\ sent' = << >>
    /\ UNCHANGED <<watchTable, local_watch, local_watches, siphashkey_watch, tvars, ovars>>

\* WATCH C or the exit of a client, every header it reads allocated.
DrainDefined(cptr) ==
    /\ Defined
    /\ ~DrainReadsFreed(local_watch[cptr], 1, cptr, watchHeap)
    /\ HashDelWatchList(cptr)

\* The same when the loop reads a freed header: what follows is undefined,
\* and is followed no further.
DrainUndefined(cptr) ==
    /\ Defined
    /\ DrainReadsFreed(local_watch[cptr], 1, cptr, watchHeap)
    /\ wcond' = "dellist_undefined"
    /\ UNCHANGED <<watchTable, watchHeap, local_watch, local_watches, sent,
                   siphashkey_watch, tvars, ovars>>

FaultNext ==
    \/ \E nick \in FaultNicks, cptr \in Clients :
          Defined /\ (cptr = "B" => nick = Bob) /\ AddToWatch(nick, cptr, 0)
    \/ \E p \in WatchPtrs : BreakLink(p, "A")
    \/ \E cptr \in Clients : DrainDefined(cptr)
    \/ \E cptr \in Clients : DrainUndefined(cptr)

SpecWatchFault == FaultInit /\ [][FaultNext]_vars

\* The entries of the list of S that find, when the loop comes to them, no
\* link to S under their header: those beyond the links the header has.
Unmatched(S) ==
    {k \in 1..Len(local_watch[S]) :
        Cardinality({j \in 1..k : local_watch[S][j].wptr = local_watch[S][k].wptr})
           > HeaderSide(local_watch[S][k].wptr, S)}

DebugError == [to |-> "ops", reply |-> "WATCH Debug error"]

\* The drain of the list of S.
DrainGoesOn(S) ==
    /\ local_watch'[S] = << >>
    /\ local_watches'[S] = 0
    /\ sent' = [k \in 1..Cardinality(Unmatched(S)) |-> DebugError]
    /\ \A p \in WatchPtrs :
          ClientSide(p, S) > 0 =>
             /\ HeaderSide(p, S) = 0 =>
                   /\ watchHeap'[p] = watchHeap[p]
                   /\ p \in LinkedIn(watchTable')
             /\ HeaderSide(p, S) > 0 =>
                   IF SubscribersOf(p) = {S}
                   THEN watchHeap'[p] = FreeCell /\ p \notin LinkedIn(watchTable')
                   ELSE /\ FindClient(watchHeap'[p].watch, S, 1) = 0
                        /\ p \in LinkedIn(watchTable')

MaxConfigPeriod == 60

\* EventAdd takes its interval in milliseconds: "v = 5000; run at least
\* every 5s".
MsPerSecond == 1000

\* init_throttling(): the interval v handed to EventAdd for the event
\* "bucketcleaning", by the configured period.
init_throttling(period) ==
    IF period = 0
    THEN 120
    ELSE LET v0 == period \div 2
             v1 == IF v0 > 5 THEN 5000 ELSE v0      \* run at least every 5s
             v2 == IF v1 < 1 THEN 1000 ELSE v1      \* run at max once every 1s
         IN  v2

\* The configuration is read, no event is added yet.
SweepInit ==
    /\ ThrottlingHash = [i \in Buckets |-> << >>]
    /\ siphashkey_throttling = [ip \in IPs |-> 0]
    /\ THROTTLING_PERIOD \in 0..MaxConfigPeriod
    /\ THROTTLING_COUNT = 0
    /\ now = 0
    /\ ret = -1
    /\ sptr = NoIP
    /\ cond = "none"
    /\ pc = "idle"
    /\ run = [ip \in IPs |-> 0]
    /\ TablesIdle
    /\ WatchEmpty
    /\ WatchKeyIdle

\* init_throttling() is called once.
InitThrottling ==
    /\ bucketcleaning = -1
    /\ bucketcleaning' = init_throttling(THROTTLING_PERIOD)
    /\ UNCHANGED <<tvars, wvars, hvars, chan_bucket>>

SweepNext == InitThrottling

SpecSweepInterval == SweepInit /\ [][SweepNext]_vars

\* C20: the interval with which init_throttling adds the sweep is between 1
\* and 5 seconds, whatever the configured period (zero, small or large).
C20_IntervalClamped ==
    bucketcleaning # -1 =>
       /\ 1 * MsPerSecond <= bucketcleaning
       /\ bucketcleaning <= 5 * MsPerSecond

\* With a period of 4 the sweep is added with an interval of 2 (milliseconds).
C20_Witness ==
    /\ THROTTLING_PERIOD = 4
    /\ bucketcleaning = 2


(***************************************************************************)
(* find_server                                                             *)
(***************************************************************************)
\* IsMe(cptr): the client is this server itself (none of the clients here).
IsMe(c) == FALSE

\* find_server(name, cptr), for a name that is not NULL.
find_server(nm, cptr) ==
    LET acptr == find_client(nm, NoEntity)
    IN  IF acptr # NoEntity /\ (IsServer(acptr) \/ IsMe(acptr))
        THEN acptr
        ELSE NoEntity

\* What the name table alone gives as a server for a text.
ServerByName(nm) ==
    LET acptr == hash_find_client(nm, NoEntity)
    IN  IF acptr # NoEntity /\ (IsServer(acptr) \/ IsMe(acptr))
        THEN acptr
        ELSE NoEntity

\* C21: find_server looks at idTable only for a requester that is NULL or a
\* server; for any other requester a server is resolved through clientTable
\* alone, so a server of which the id but not the name is the text asked for
\* is not returned.
C21_FindServerPolicy ==
    \A nm \in ClientTexts, req \in Requesters :
       ~Trusted(req) =>
          /\ find_server(nm, req) = ServerByName(nm)
          /\ \A c \in Entities :
                smycmp(nm, ClientId[c]) = 0 /\ smycmp(nm, client_name[c]) # 0
                   => find_server(nm, req) # c

\* The server c3, named "001", is in idTable with its id "003": asked by the
\* user c1 for "003", find_server returns c3, which clientTable does not
\* hold under that text.
C21_Witness ==
    /\ client_name["c3"] = t001
    /\ hash_find_id(t003, NoEntity) = "c3"
    /\ hash_find_client(t003, NoEntity) = NoEntity
    /\ find_server(t003, "c1") = "c3"


(***************************************************************************)
(* Two entities of one key                                                 *)
(***************************************************************************)
\* The callers give two clients the names "Bob" and "bob", and two channels
\* the names "#a" and "#A": one key each, as the tables compare.
TwinNames == [FirstName EXCEPT !["c2"] = bob]
TwinChannels == {"ch1", "ch2", "ch4"}

TwinInit ==
    /\ ThrottleQuiet
    /\ WatchEmpty
    /\ WatchKeyIdle
    /\ clientTable = [i \in NickSlots |-> << >>]
    /\ idTable = [i \in NickSlots |-> << >>]
    /\ channelTable = [i \in ChanSlots |-> << >>]
    /\ client_name = TwinNames
    /\ renames = 0
    /\ hcond = "none"
    /\ loop_tainted = 0
    /\ \/ /\ exist = [Nobody EXCEPT !.clients = Entities]
          /\ siphashkey_nick \in NickKeys
          /\ ChanKeyIdle
       \/ /\ exist = [Nobody EXCEPT !.channels = TwinChannels]
          /\ siphashkey_chan \in ChanKeys
          /\ NickKeyIdle

TwinNext ==
    \/ \E c \in exist.clients : AddToClientHashTable(c)
    \/ \E c \in exist.clients, nm \in AnyNames : DelFromClientHashTable(nm, c)
    \/ \E ch \in exist.channels : AddToChannelHashTable(ch)
    \/ \E ch \in exist.channels : DelFromChannelHashTable(chname[ch], ch)

SpecTwins == TwinInit /\ [][TwinNext]_vars

\* The insertion of e under a key that a linked o carries already: both are
\* in the chain of the key, and the lookup returns e, the one added last.
SecondIsAdded ==
    /\ \A e \in TwinChannels, o \in LinkedIn(channelTable) :
          LET s == hash_channel_name(chname[e])
              T == add_to_channel_hash_table(chname[e], e)
          IN  list_empty(e, channelTable) /\ smycmp(chname[e], chname[o]) = 0 =>
                 /\ {e, o} \subseteq InChain(T[s])
                 /\ Len(T[s]) = Len(channelTable[s]) + 1
                 /\ ScanChain(T[s], chname, chname[o], 1, Fallback) = e
    /\ \A e \in Entities, o \in LinkedIn(clientTable) :
          LET s == hash_client_name(client_name[e])
              T == add_to_client_hash_table(client_name[e], e)
          IN  list_empty(e, clientTable) /\ smycmp(client_name[e], client_name[o]) = 0 =>
                 /\ {e, o} \subseteq InChain(T[s])
                 /\ Len(T[s]) = Len(clientTable[s]) + 1
                 /\ ScanChain(T[s], client_name, client_name[o], 1, Fallback) = e

\* Two linked entities of one key: the lookup returns one of them, and the
\* other as soon as the one is removed.
BothAreFound ==
    /\ \A e \in LinkedIn(channelTable) :
       \A o \in LinkedIn(channelTable) \ {e} :
          LET s == hash_channel_name(chname[e])
              T == del_from_channel_hash_table(chname[e], e)
          IN  smycmp(chname[e], chname[o]) = 0 =>
                 /\ hash_find_channel(chname[e], Fallback) \in {e, o}
                 /\ ScanChain(T[s], chname, chname[e], 1, Fallback) = o
    /\ \A e \in LinkedIn(clientTable), nm \in AnyNames :
       \A o \in LinkedIn(clientTable) \ {e} :
          LET s == hash_client_name(client_name[e])
              T == del_from_client_hash_table(nm, e)
          IN  smycmp(client_name[e], client_name[o]) = 0 =>
                 /\ hash_find_client(client_name[e], Fallback) \in {e, o}
                 /\ ScanChain(T[s], client_name, client_name[e], 1, Fallback) = o

CountIsLength ==
    \A c \in Clients :
       /\ local_watches[c] = Len(local_watch[c])
       /\ local_watches[c] >= 0

\* An unsubscribe for a nickname that the client does not watch (no header
\* for it, or a header that does not list the client) leaves the counts.
NoWatchNoCountdown ==
    \A nick \in Nicks, c \in Clients :
       c \notin Watchers(nick) =>
          del_from_watch_hash_table(nick, c).reg.lwatches = local_watches

\* The step of such an unsubscribe.
NoWatchStep ==
    wcond' \in {"del_nowatch", "del_noclient"} =>
       UNCHANGED <<local_watches, local_watch>>

\* C23: from the empty registry on, whatever add_to_watch_hash_table,
\* del_from_watch_hash_table and hash_del_watch_list are called, the count
\* of watches of every client is the number of entries of its own list, and
\* not negative; an unsubscribe for a nickname that the client does not
\* watch does not lower it.
C23_CountIsListLength ==
    /\ []CountIsLength
    /\ []NoWatchNoCountdown
    /\ [][NoWatchStep]_vars

\* A client that watches one nickname was unsubscribed from another, which
\* the other client watches: its count is still 1.
C23_Witness ==
    /\ wcond = "del_noclient"
    /\ \E c \in Clients :
          /\ local_watches[c] = 1
          /\ Len(local_watch[c]) = 1
          /\ \E nick \in Nicks : hash_get_watch(nick) # NULL /\ c \notin Watchers(nick)


(***************************************************************************)
(* The shape of the throttling store                                       *)
(***************************************************************************)
\* The places (chain, position) of the buckets of an address.
PlacesOf(ip) ==
    {ij \in Buckets \X (1..(Cardinality(IPs) + 1)) :
        /\ ij[2] <= Len(ThrottlingHash[ij[1]])
        /\ ThrottlingHash[ij[1]][ij[2]].ip = ip}

\* C24: with add_throttling_bucket called only right after
\* throttle_can_connect returned 1 for the address, whatever attempts of the
\* addresses and sweeps there were: ThrottlingHash holds at most one bucket
\* per address, every bucket is in the chain of the hash of its address, and
\* the count of every bucket is at least 1.
C24_StoreShape ==
    /\ \A ip \in IPs : Cardinality(PlacesOf(ip)) <= 1
    /\ \A i \in Buckets : Len(ThrottlingHash[i]) <= Cardinality(IPs)
    /\ \A i \in Buckets : \A j \in 1..Len(ThrottlingHash[i]) :
          /\ ThrottlingHash[i][j].ip \in IPs
          /\ hash_throttling(ThrottlingHash[i][j].ip) = i
          /\ ThrottlingHash[i][j].count >= 1

\* Each address has its bucket, one of them counted further, and the clock
\* has moved on.
C24_Witness ==
    /\ pc = "idle"
    /\ now > 0
    /\ \A ip \in IPs : Cardinality(PlacesOf(ip)) = 1
    /\ \E ip \in IPs : CountOf(ip) >= 2
    /\ \E ip \in IPs : CountOf(ip) = 1 /\ BucketOf(ip).since > 0

(***************************************************************************)
(* hash_get_chan_bucket (hash.c 579-584).                                  *)
(***************************************************************************)
\* The argument is a uint64_t; the values drawn for it are 0..MaxHashv,
\* all the slots of channelTable, the index one past them and one beyond.
MaxHashv == 3

\* What the word after the end of channelTable may hold: the read of
\* channelTable[CHAN_HASH_TABLE_SIZE] is outside the array, and its result
\* is any pointer value.
Wild == "wild"
PastTheEnd == {NoEntity, Wild} \cup Channels

\* The head of a chain (NULL for an empty one).
HeadOf(chain) == IF chain = << >> THEN NoEntity ELSE chain[1]

\* hash_get_chan_bucket(hashv): the calls it may make, as
\* [hashv, ret, read]; read tells where in memory channelTable[hashv] was
\* read ("none": no read).
\*     if (hashv > CHAN_HASH_TABLE_SIZE) return NULL;
\*     return channelTable[hashv];
hash_get_chan_bucket(hashv) ==
    IF hashv > CHAN_HASH_TABLE_SIZE
    THEN {[hashv |-> hashv, ret |-> NoEntity, read |-> "none"]}
    ELSE IF hashv \in ChanSlots
         THEN {[hashv |-> hashv, ret |-> HeadOf(channelTable[hashv]),
                read |-> "inside"]}
         ELSE {[hashv |-> hashv, ret |-> r, read |-> "outside"] :
                  r \in PastTheEnd}

\* The channels of the run exist; nothing is in channelTable yet.
ChanBucketInit ==
    /\ ThrottleQuiet
    /\ WatchEmpty
    /\ WatchKeyIdle
    /\ NickKeyIdle
    /\ clientTable = [i \in NickSlots |-> << >>]
    /\ idTable = [i \in NickSlots |-> << >>]
    /\ channelTable = [i \in ChanSlots |-> << >>]
    /\ client_name = FirstName
    /\ renames = 0
    /\ hcond = "none"
    /\ loop_tainted = 0
    /\ exist = [Nobody EXCEPT !.channels = Channels]
    /\ siphashkey_chan \in ChanKeys

\* A caller asks for the bucket of hashv.
HashGetChanBucket(hashv) ==
    /\ chan_bucket' \in hash_get_chan_bucket(hashv)
    /\ hcond' = "get_bucket"
    /\ UNCHANGED <<tvars, wvars, bucketcleaning, clientTable, idTable,
                   channelTable, siphashkey_nick, siphashkey_chan,
                   loop_tainted, client_name, renames, exist>>

ChanBucketNext ==
    \/ \E ch \in exist.channels : AddToChannelHashTable(ch)
    \/ \E ch \in exist.channels : DelFromChannelHashTable(chname[ch], ch)
    \/ \E hashv \in 0..MaxHashv : HashGetChanBucket(hashv)

SpecChanBucket == ChanBucketInit /\ [][ChanBucketNext]_vars

\* C25: hash_get_chan_bucket(h) never reads channelTable outside its
\* bounds: for every h that is not in 0..CHAN_HASH_TABLE_SIZE-1, h equal to
\* CHAN_HASH_TABLE_SIZE included, it returns NULL, and for every h in range
\* it returns the head of bucket h.
C25_BucketInBounds ==
    hcond = "get_bucket" =>
        /\ chan_bucket.read # "outside"
        /\ chan_bucket.hashv \notin ChanSlots => chan_bucket.ret = NoEntity
        /\ chan_bucket.hashv \in ChanSlots =>
              chan_bucket.ret = HeadOf(channelTable[chan_bucket.hashv])

\* hash_get_chan_bucket(CHAN_HASH_TABLE_SIZE) passed the test of hashv, read
\* the word after the last slot of channelTable and returned it, while every
\* chain of channelTable has its channel.
C25_Witness ==
    /\ hcond = "get_bucket"
    /\ chan_bucket.hashv = CHAN_HASH_TABLE_SIZE
    /\ chan_bucket.read = "outside"
    /\ chan_bucket.ret # NoEntity
    /\ \A i \in ChanSlots : channelTable[i] # << >>

=============================================================================
